---- MODULE Spec2Model ----
(***************************************************************************)
(* A model of libtarock: the turn rotation (player.rs), the bidding        *)
(* (bidding.rs), the bonus announcements (announcements.rs, bonuses.rs),   *)
(* trick play (game.rs), the move validators and trick winner strategies   *)
(* (contracts.rs), the deck, the deal and the piles (cards.rs) and the     *)
(* scores of a game (scoring.rs).                                          *)
(*                                                                         *)
(* One object is under test in a behaviour; `sys` names it.  Every call of *)
(* an operation is one action that models the whole handler; the call and  *)
(* what it returned are kept in `call` and `result`, and `pre` is the      *)
(* object as it was when the call was made.  `hist` records what the       *)
(* accepted calls did (who passed, who announced, who played a card of the *)
(* trick), which the objects themselves do not keep.                       *)
(***************************************************************************)
EXTENDS Integers, Sequences, FiniteSets, TLC

VARIABLES
    sys,        \* the object constructed: "Bidder", "Announcements", "StandardGame",
                \* "valid_moves", "PlayerTurn", "winner_strategy", "Deck" or "score"
    players,    \* the players arena: player id -> [id, hand, pile]
    bidder,     \* Bidder {forehand, done, highest, turn}
    ann,        \* Announcements {turn, done, king}
    game,       \* StandardGame {trick, turn, trick_number, done} (its players are `players`)
    args,       \* the arguments of a pure function under test; the deck; the hand size
    call,       \* the last call: [op, player, arg]
    result,     \* what the last call returned
    pre,        \* the object under test (and the players) before the last call
    order,      \* a PlayerTurn under test on its own
    hist        \* what the accepted calls so far did: who passed, who acted, who played

vars == <<sys, players, bidder, ann, game, args, call, result, pre, order, hist>>

(***************************************************************************)
(* Bounds of the model.                                                    *)
(***************************************************************************)
\* Plays of a card that the player does not hold, in one game.
MaxAbsentPlays == 1
\* Largest hand given to a move validator.
MaxHand == 3
\* Most participants of a PlayerTurn under test on its own.
MaxTurnPlayers == 4
\* Most cards of a hand in the games that are played to their end.
MaxTricks == 3

(***************************************************************************)
(* cards.rs: ranks, tarocks, suits and cards.  A card is its index in      *)
(* CARDS: 8 * suit + rank for a suit card, 32 + tarock for a tarock.       *)
(***************************************************************************)
Seven == 0
Eight == 1
Nine == 2
Ten == 3
Jack == 4
Knight == 5
Queen == 6
King == 7

Tarock1 == 0
Tarock2 == 1
Tarock10 == 9
Tarock13 == 12
Tarock21 == 20
TarockSkis == 21

CardSuits == <<"Clubs", "Spades", "Hearts", "Diamonds">>

SuitIndex(s) == CHOOSE i \in 1..4 : CardSuits[i] = s

SuitCard(rank, s) == 8 * (SuitIndex(s) - 1) + rank

TarockCard(tarock) == 32 + tarock

CARDS == 0..53

CARD_TAROCK_PAGAT == TarockCard(Tarock1)
CARD_TAROCK_MOND == TarockCard(Tarock21)
CARD_TAROCK_SKIS == TarockCard(TarockSkis)

is_tarock(card) == card >= 32

is_pagat(card) == card = TarockCard(Tarock1)

is_mond(card) == card = TarockCard(Tarock21)

is_skis(card) == card = TarockCard(TarockSkis)

\* Option<CardSuit>: the suit's name, or "None" for a tarock.
suit(card) == IF is_tarock(card) THEN "None" ELSE CardSuits[(card \div 8) + 1]

rank(card) == card % 8

tarock(card) == card - 32

\* Card::value
value(card) ==
    IF is_tarock(card)
    THEN IF tarock(card) \in {Tarock1, Tarock21, TarockSkis} THEN 5 ELSE 0
    ELSE CASE rank(card) = King -> 5
           [] rank(card) = Queen -> 4
           [] rank(card) = Knight -> 3
           [] rank(card) = Jack -> 2
           [] OTHER -> 0

\* The derived ordering of CardRank and of Tarock: by declaration order.
cmp(a, b) == IF a < b THEN "Less" ELSE IF a > b THEN "Greater" ELSE "Equal"

\* impl PartialOrd for Card
partial_cmp(self, other) ==
    CASE is_tarock(self) /\ ~is_tarock(other) -> "Greater"
      [] ~is_tarock(self) /\ is_tarock(other) -> "Less"
      [] ~is_tarock(self) /\ ~is_tarock(other) ->
            IF suit(self) = suit(other) THEN cmp(rank(self), rank(other)) ELSE "Greater"
      [] OTHER -> cmp(tarock(self), tarock(other))

\* self > other, as PartialOrd::gt derives it from partial_cmp
gt(self, other) == partial_cmp(self, other) = "Greater"

\* Hand: a HashSet<Card>
has_tarock(hand) == \E card \in hand : is_tarock(card)

has_suit(hand, s) == \E card \in hand : suit(card) = s

has_card(hand, card) == card \in hand

remove_card(hand, card) == hand \ {card}

\* Pile::add_trick: the trick's cards are pushed in order
add_trick(pile, trick) == pile \o trick

\* Card::is_valuable
is_valuable(card) == value(card) > 0

\* slice.chunks(size): the consecutive groups of `size` elements, the last one shorter
\* when the length is not a multiple of `size`.
chunks(cards, size) ==
    [g \in 1..((Len(cards) + size - 1) \div size) |->
        SubSeq(cards, size * (g - 1) + 1,
               IF size * g < Len(cards) THEN size * g ELSE Len(cards))]

\* Mutant of group_score: a group of two cards is scored as a single card is
\* (the sum of the values less one, and nothing without a valuable card).
group_score_two_as_one(group) ==
    LET score == IF Len(group) = 0 THEN 0
                 ELSE value(group[1]) + (IF Len(group) > 1 THEN value(group[2]) ELSE 0)
                                      + (IF Len(group) > 2 THEN value(group[3]) ELSE 0)
        num_valuable == Cardinality({i \in 1..Len(group) : is_valuable(group[i])})
    IN IF Len(group) > 2
       THEN IF score = 0 THEN 1 ELSE score - (num_valuable - 1)
       ELSE IF num_valuable > 0 THEN score - 1 ELSE 0

\* Mutant of group_score: a group without a valuable card scores nothing.
group_score_empty_is_nothing(group) ==
    LET score == IF Len(group) = 0 THEN 0
                 ELSE value(group[1]) + (IF Len(group) > 1 THEN value(group[2]) ELSE 0)
                                      + (IF Len(group) > 2 THEN value(group[3]) ELSE 0)
        num_valuable == Cardinality({i \in 1..Len(group) : is_valuable(group[i])})
    IN IF Len(group) > 1
       THEN IF score = 0 THEN 0 ELSE score - (num_valuable - 1)
       ELSE IF num_valuable > 0 THEN score - 1 ELSE 0

\* The body of the loop of Pile::score: what one group adds to the total.
group_score(group) ==
    LET score == IF Len(group) = 0 THEN 0
                 ELSE value(group[1]) + (IF Len(group) > 1 THEN value(group[2]) ELSE 0)
                                      + (IF Len(group) > 2 THEN value(group[3]) ELSE 0)
        num_valuable == Cardinality({i \in 1..Len(group) : is_valuable(group[i])})
    IN IF Len(group) > 1
       THEN IF score = 0 THEN 1 ELSE score - (num_valuable - 1)
       ELSE IF num_valuable > 0 THEN score - 1 ELSE 0

RECURSIVE score_groups(_, _, _)
\* The loop of Pile::score from group g on, with the total so far.
score_groups(groups, g, total) ==
    IF g > Len(groups) THEN total
    ELSE score_groups(groups, g + 1, total + group_score(groups[g]))

\* Pile::score
Pile_score(pile) == score_groups(chunks(pile, 3), 1, 0)

(***************************************************************************)
(* contracts.rs: the contracts and their values.                           *)
(***************************************************************************)
KLOP == "Klop"
STANDARD_THREE == "StandardThree"
STANDARD_TWO == "StandardTwo"
STANDARD_ONE == "StandardOne"
SOLO_THREE == "SoloThree"
SOLO_TWO == "SoloTwo"
SOLO_ONE == "SoloOne"
BEGGAR_NORMAL == "BeggarNormal"
SOLO_WITHOUT == "SoloWithout"
BEGGAR_OPEN == "BeggarOpen"
VALAT_COLOR == "ValatColor"
VALAT_NORMAL == "ValatNormal"

Contract == {KLOP, STANDARD_THREE, STANDARD_TWO, STANDARD_ONE, SOLO_THREE, SOLO_TWO,
             SOLO_ONE, BEGGAR_NORMAL, SOLO_WITHOUT, BEGGAR_OPEN, VALAT_COLOR, VALAT_NORMAL}

is_klop(contract) == contract = KLOP

\* Contract::is_normal
is_normal(contract) == contract \in {STANDARD_THREE, SOLO_THREE, SOLO_WITHOUT}

\* Contract::value
contract_value(contract) ==
    CASE contract = KLOP -> 70
      [] contract = STANDARD_THREE -> 10
      [] contract = STANDARD_TWO -> 20
      [] contract = STANDARD_ONE -> 30
      [] contract = SOLO_THREE -> 40
      [] contract = SOLO_TWO -> 50
      [] contract = SOLO_ONE -> 60
      [] contract = BEGGAR_NORMAL -> 70
      [] contract = SOLO_WITHOUT -> 80
      [] contract = BEGGAR_OPEN -> 90
      [] contract = VALAT_COLOR -> 125
      [] contract = VALAT_NORMAL -> 250

\* impl PartialOrd for Contract: contracts compare by value
contract_ge(a, b) == contract_value(a) >= contract_value(b)

contract_gt(a, b) == contract_value(a) > contract_value(b)

(***************************************************************************)
(* player.rs: PlayerTurn.  current_index is 0-based as in the source; the  *)
(* roster `players` is a sequence, so its element i is players[i + 1].     *)
(***************************************************************************)
PlayerId == 0..3

start_with(num_players, first) ==
    [current_index |-> first,
     num_players |-> num_players,
     started_with |-> first,
     players |-> [i \in 1..num_players |-> i - 1]]

started_with(turn) == turn.started_with

num_players(turn) == turn.num_players

current_players(turn) == Len(turn.players)

current(turn) == turn.players[turn.current_index + 1]

\* Vec::remove(index): the elements after it shift left
vec_remove(v, index) == [i \in 1..(Len(v) - 1) |-> IF i <= index THEN v[i] ELSE v[i + 1]]

\* Mutant of PlayerTurn::remove: the cursor moves on and nobody leaves the roster.
remove_only_advances(turn) ==
    [turn EXCEPT !.current_index = (turn.current_index + 1) % current_players(turn)]

\* Mutant of PlayerTurn::remove: the last participant leaves and all come back.
remove_refills(turn) ==
    IF current_players(turn) > 1
    THEN LET rest == vec_remove(turn.players, turn.current_index)
         IN [turn EXCEPT !.players = rest,
                         !.current_index = turn.current_index % Len(rest)]
    ELSE start_with(turn.num_players, turn.started_with)

remove(turn) ==
    IF current_players(turn) > 1
    THEN LET rest == vec_remove(turn.players, turn.current_index)
         IN [turn EXCEPT !.players = rest,
                         !.current_index = turn.current_index % Len(rest)]
    ELSE turn

\* Mutant of PlayerTurn::next: the cursor skips a participant.
next_skips_one(turn) ==
    [turn EXCEPT !.current_index = (turn.current_index + 2) % current_players(turn)]

next(turn) ==
    [turn EXCEPT !.current_index = (turn.current_index + 1) % current_players(turn)]

(***************************************************************************)
(* Results: Ok(Next(player)), Ok(Last) and Err(error).                     *)
(***************************************************************************)
Next_(player) == [tag |-> "Next", player |-> player, err |-> "None"]

Last == [tag |-> "Last", player |-> -1, err |-> "None"]

Err(error) == [tag |-> "Err", player |-> -1, err |-> error]

\* A &PlayerId returned by a PlayerTurn
Returned(player) == [tag |-> "PlayerId", player |-> player, err |-> "None"]

\* A bool returned
ReturnedBool(b) == [tag |-> IF b THEN "true" ELSE "false", player |-> -1, err |-> "None"]

NoResult == [tag |-> "None", player |-> -1, err |-> "None"]

NoCall == [op |-> "None", player |-> -1, arg |-> "None"]

is_ok(r) == r.tag \in {"Next", "Last"}

is_err(r) == r.tag = "Err"

(***************************************************************************)
(* bidding.rs: Bidder.                                                     *)
(***************************************************************************)
DEFAULT_CONTRACT == STANDARD_THREE

NUM_PLAYERS == 4

\* A uint is 64 bits wide: four 16-bit limbs, least significant first, so that
\* the subtraction and the addition wrap modulo 2^64 exactly as the machine's do.
Limb == 2 ^ 16

to_uint(n) == <<n % Limb, (n \div Limb) % Limb, 0, 0>>

\* a - b modulo 2^64, limb by limb with borrow
uint_sub(a, b) ==
    LET d1 == a[1] - b[1]
        w1 == IF d1 < 0 THEN 1 ELSE 0
        d2 == a[2] - b[2] - w1
        w2 == IF d2 < 0 THEN 1 ELSE 0
        d3 == a[3] - b[3] - w2
        w3 == IF d3 < 0 THEN 1 ELSE 0
        d4 == a[4] - b[4] - w3
    IN <<(d1 + Limb) % Limb, (d2 + Limb) % Limb, (d3 + Limb) % Limb, (d4 + Limb) % Limb>>

\* a + b modulo 2^64, limb by limb with carry
uint_add(a, b) ==
    LET s1 == a[1] + b[1]
        s2 == a[2] + b[2] + (s1 \div Limb)
        s3 == a[3] + b[3] + (s2 \div Limb)
        s4 == a[4] + b[4] + (s3 \div Limb)
    IN <<s1 % Limb, s2 % Limb, s3 % Limb, s4 % Limb>>

\* a % m for a small modulus m
uint_rem(a, m) ==
    ((((((a[4] % m) * Limb + a[3]) % m) * Limb + a[2]) % m) * Limb + a[1]) % m

\* Mutant of player_priority: the subtraction stops at 0 instead of wrapping.
player_priority_saturating(turn, player) ==
    LET pos_diff == IF player < started_with(turn) THEN 0 ELSE player - started_with(turn)
    IN (pos_diff + num_players(turn) - 1) % num_players(turn)

player_priority(turn, player) ==
    LET pos_diff == uint_sub(to_uint(player), to_uint(started_with(turn)))
    IN uint_rem(uint_sub(uint_add(pos_diff, to_uint(num_players(turn))), to_uint(1)),
                num_players(turn))

\* Bid::new
Bid_new(player, priority, contract) ==
    [player |-> player, player_priority |-> priority, contract |-> contract]

\* Mutants of is_bid_valid: the two branches swapped; the priority ignored.
is_bid_valid_swapped(highest, wanted) ==
    IF wanted.player_priority <= highest.player_priority
    THEN contract_gt(wanted.contract, highest.contract)
    ELSE contract_ge(wanted.contract, highest.contract)

is_bid_valid_ignoring_priority(highest, wanted) ==
    contract_ge(wanted.contract, highest.contract)

\* Mutant of is_bid_valid: a bid must always be higher than the highest one.
is_bid_valid_always_higher(highest, wanted) ==
    contract_gt(wanted.contract, highest.contract)

is_bid_valid(highest, wanted) ==
    IF wanted.player_priority <= highest.player_priority
    THEN contract_ge(wanted.contract, highest.contract)
    ELSE contract_gt(wanted.contract, highest.contract)

\* Mutant of Bidder::new: the forehand is the first to bid.
Bidder_new_forehand_first(dealer) ==
    LET turn0 == start_with(NUM_PLAYERS, dealer)
        turn1 == next(turn0)
        highest_bid == Bid_new(current(turn1), player_priority(turn1, current(turn1)),
                               DEFAULT_CONTRACT)
    IN [forehand |-> current(turn1), done |-> FALSE, highest |-> highest_bid, turn |-> turn1]

\* Mutant of Bidder::new: the dealer is not skipped and holds the default bid.
Bidder_new_dealer_is_forehand(dealer) ==
    LET turn0 == start_with(NUM_PLAYERS, dealer)
        highest_bid == Bid_new(current(turn0), player_priority(turn0, current(turn0)),
                               DEFAULT_CONTRACT)
        forehand == current(turn0)
        turn1 == next(turn0)
    IN [forehand |-> forehand, done |-> FALSE, highest |-> highest_bid, turn |-> turn1]

\* Bidder::new
Bidder_new(dealer) ==
    LET turn0 == start_with(NUM_PLAYERS, dealer)
        turn1 == next(turn0)
        highest_bid == Bid_new(current(turn1), player_priority(turn1, current(turn1)),
                               DEFAULT_CONTRACT)
        forehand == current(turn1)
        turn2 == next(turn1)
    IN [forehand |-> forehand, done |-> FALSE, highest |-> highest_bid, turn |-> turn2]

\* Mutant of has_no_bets: any player, not only the forehand.
has_no_bets_any_player(b, player) == b.highest.contract = DEFAULT_CONTRACT

has_no_bets(b, player) == b.forehand = player /\ b.highest.contract = DEFAULT_CONTRACT

\* Mutant of Bidder::next_player: the bidding is done as soon as one bidder is left.
Bidder_next_player_done_when_alone(b, f_turn) ==
    IF current_players(b.turn) = 1 \/ current_players(f_turn) = 1
    THEN <<[b EXCEPT !.turn = f_turn, !.done = TRUE], Last>>
    ELSE <<[b EXCEPT !.turn = f_turn], Next_(current(f_turn))>>

\* Bidder::next_player with the closure f applied to the turn: the pair of
\* the bidder after the call and the Success returned.
Bidder_next_player(b, f_turn) ==
    IF current_players(b.turn) = 1
    THEN <<[b EXCEPT !.done = TRUE], Last>>
    ELSE <<[b EXCEPT !.turn = f_turn], Next_(current(f_turn))>>

\* Mutant of Bidder::bid: the turn is checked before done.
Bidder_bid_turn_first(b, player, contract) ==
    LET bid == Bid_new(current(b.turn), player_priority(b.turn, player), contract)
    IN IF current(b.turn) # player THEN <<b, Err("NotPlayersTurn")>>
       ELSE IF b.done THEN <<b, Err("Done")>>
       ELSE IF is_klop(contract) /\ ~has_no_bets(b, player) THEN <<b, Err("InvalidContract")>>
       ELSE IF ~is_bid_valid(b.highest, bid) THEN <<b, Err("ContractTooLow")>>
       ELSE Bidder_next_player([b EXCEPT !.highest = bid], next(b.turn))

\* Bidder::bid: the pair of the bidder after the call and the result.
Bidder_bid(b, player, contract) ==
    LET bid == Bid_new(current(b.turn), player_priority(b.turn, player), contract)
    IN IF b.done THEN <<b, Err("Done")>>
       ELSE IF current(b.turn) # player THEN <<b, Err("NotPlayersTurn")>>
       ELSE IF is_klop(contract) /\ ~has_no_bets(b, player) THEN <<b, Err("InvalidContract")>>
       ELSE IF ~is_bid_valid(b.highest, bid) THEN <<b, Err("ContractTooLow")>>
       ELSE Bidder_next_player([b EXCEPT !.highest = bid], next(b.turn))

\* Mutant of Bidder::pass: the only bidder left may pass.
Bidder_pass_sole_bidder_passes(b, player) ==
    IF b.done THEN <<b, Err("Done")>>
    ELSE IF current(b.turn) # player THEN <<b, Err("NotPlayersTurn")>>
    ELSE IF has_no_bets(b, player) THEN <<b, Err("MustBid")>>
    ELSE Bidder_next_player(b, remove(b.turn))

\* Mutant of Bidder::pass: the player who passes stays in the bidding.
Bidder_pass_stays_in(b, player) ==
    IF b.done THEN <<b, Err("Done")>>
    ELSE IF current(b.turn) # player THEN <<b, Err("NotPlayersTurn")>>
    ELSE IF has_no_bets(b, player) \/ current_players(b.turn) = 1 THEN <<b, Err("MustBid")>>
    ELSE Bidder_next_player(b, next(b.turn))

\* Bidder::pass
Bidder_pass(b, player) ==
    IF b.done THEN <<b, Err("Done")>>
    ELSE IF current(b.turn) # player THEN <<b, Err("NotPlayersTurn")>>
    ELSE IF has_no_bets(b, player) \/ current_players(b.turn) = 1 THEN <<b, Err("MustBid")>>
    ELSE Bidder_next_player(b, remove(b.turn))

\* Bidder::winner: the winning bid, or "None"
winner(b) == IF b.done THEN b.highest ELSE "None"

(***************************************************************************)
(* bonuses.rs and announcements.rs: Announcements.  A player is a record   *)
(* [id, hand, pile] of the players arena.                                  *)
(***************************************************************************)
BonusType == {"Trula", "Kings", "KingUltimo", "PagatUltimo", "Valat"}

\* bonuses_allowed
bonuses_allowed(contract) == is_normal(contract)

Player_new(id, hand) == [id |-> id, hand |-> hand, pile |-> <<>>]

\* has_king: false when no king was called
has_king(player, king) ==
    IF king = "None" THEN FALSE ELSE has_card(player.hand, SuitCard(King, king))

has_pagat(player) == has_card(player.hand, CARD_TAROCK_PAGAT)

\* Mutant of valid_bonuses: KingUltimo is valid for the holder of any king.
valid_bonuses_any_king(player, king) ==
    {"Trula", "Kings", "Valat"}
        \cup (IF \E s \in {"Clubs", "Spades", "Hearts", "Diamonds"} :
                    has_card(player.hand, SuitCard(King, s))
              THEN {"KingUltimo"} ELSE {})
        \cup (IF has_pagat(player) THEN {"PagatUltimo"} ELSE {})

valid_bonuses(player, king) ==
    {"Trula", "Kings", "Valat"}
        \cup (IF has_king(player, king) THEN {"KingUltimo"} ELSE {})
        \cup (IF has_pagat(player) THEN {"PagatUltimo"} ELSE {})

check_bonuses_valid(player, bonuses, king) == bonuses \subseteq valid_bonuses(player, king)

\* Mutant of Announcements::new: the announcing starts with player 0.
Announcements_new_from_zero(declarer) ==
    [turn |-> start_with(NUM_PLAYERS, 0), done |-> FALSE, king |-> "None"]

\* Announcements::new
Announcements_new(declarer) ==
    [turn |-> start_with(NUM_PLAYERS, declarer.id), done |-> FALSE, king |-> "None"]

\* Announcements::with_king
Announcements_with_king(declarer, king) ==
    [Announcements_new(declarer) EXCEPT !.king = king]

\* Announcements::next_player: the announcements after the call and the Success.
Announcements_next_player(a) ==
    IF current_players(a.turn) > 1
    THEN LET turn == remove(a.turn)
         IN <<[a EXCEPT !.turn = turn], Next_(current(turn))>>
    ELSE <<[a EXCEPT !.done = TRUE], Last>>

\* Announcements::announce
Announcements_announce(a, player, bonuses) ==
    IF a.done THEN <<a, Err("Done")>>
    ELSE IF current(a.turn) # player.id THEN <<a, Err("NotPlayersTurn")>>
    ELSE IF ~check_bonuses_valid(player, bonuses, a.king) THEN <<a, Err("InvalidBonus")>>
    ELSE Announcements_next_player(a)

\* Announcements::pass
Announcements_pass(a, player) ==
    IF a.done THEN <<a, Err("Done")>>
    ELSE IF current(a.turn) # player.id THEN <<a, Err("NotPlayersTurn")>>
    ELSE Announcements_next_player(a)

(***************************************************************************)
(* contracts.rs: the trick winner strategies and the move validators.  A   *)
(* trick is the sequence of its cards; an index into it is 0-based as in   *)
(* the source.                                                             *)
(***************************************************************************)
\* Iterator::max_by over the eligible cards from position i on, as a fold that
\* replaces the best card so far only by a strictly greater one.
RECURSIVE max_by(_, _, _, _)
max_by(cards, eligible, i, best) ==
    IF i > Len(cards) THEN best
    ELSE IF ~eligible[i] THEN max_by(cards, eligible, i + 1, best)
    ELSE IF best = 0 THEN max_by(cards, eligible, i + 1, i)
    ELSE IF gt(cards[i], cards[best]) THEN max_by(cards, eligible, i + 1, i)
    ELSE max_by(cards, eligible, i + 1, best)

contains_trula(cards) ==
    /\ \E i \in 1..Len(cards) : is_pagat(cards[i])
    /\ \E i \in 1..Len(cards) : is_mond(cards[i])
    /\ \E i \in 1..Len(cards) : is_skis(cards[i])

\* Option<CardSuit>
OptionCardSuit == {"None"} \cup {CardSuits[i] : i \in 1..Len(CardSuits)}

\* Mutant of find_winner: a trick with the Trula is won like any other.
find_winner_without_trula(cards, cond) ==
    LET played_suit == suit(cards[1])
        eligible == [i \in 1..Len(cards) |-> cond[cards[i], played_suit]]
    IN max_by(cards, eligible, 1, 0) - 1

\* The closure cond is a function of the card and the played suit.
find_winner(cards, cond) ==
    LET played_suit == suit(cards[1])
        eligible == [i \in 1..Len(cards) |-> cond[cards[i], played_suit]]
        winner_index == max_by(cards, eligible, 1, 0)
    IN IF is_tarock(cards[winner_index]) /\ contains_trula(cards)
       THEN (CHOOSE i \in 1..Len(cards) :
                is_pagat(cards[i]) /\ \A j \in 1..(i - 1) : ~is_pagat(cards[j])) - 1
       ELSE winner_index - 1

\* Mutant of color_valat_winner_strategy: trumps are eligible too.
color_valat_winner_strategy_with_trumps(cards) ==
    find_winner(cards, [card \in CARDS, s \in OptionCardSuit |->
                           suit(card) = s \/ is_tarock(card)])

color_valat_winner_strategy(cards) ==
    find_winner(cards, [card \in CARDS, s \in OptionCardSuit |-> suit(card) = s])

\* Mutant of standard_winner_strategy: every card is eligible.
standard_winner_strategy_any_suit(cards) ==
    find_winner(cards, [card \in CARDS, s \in OptionCardSuit |-> TRUE])

standard_winner_strategy(cards) ==
    find_winner(cards, [card \in CARDS, s \in OptionCardSuit |->
                           suit(card) = s \/ is_tarock(card)])

\* The suit of the trick's first card: "None" for an empty trick or a tarock.
led_suit(trick) == IF Len(trick) = 0 THEN "None" ELSE suit(trick[1])

\* Mutant of standard_move_validator: a card of another suit is always legal.
standard_move_validator_any_suit(hand, trick, card) ==
    IF Len(trick) = 0 \/ led_suit(trick) = suit(card)
    THEN TRUE
    ELSE IF suit(card) # "None"
         THEN TRUE
         ELSE IF led_suit(trick) # "None" THEN ~has_suit(hand, led_suit(trick)) ELSE TRUE

\* Mutant of standard_move_validator: a card of another suit is never legal.
standard_move_validator_no_discard(hand, trick, card) ==
    IF Len(trick) = 0 \/ led_suit(trick) = suit(card)
    THEN TRUE
    ELSE IF suit(card) # "None"
         THEN FALSE
         ELSE IF led_suit(trick) # "None" THEN ~has_suit(hand, led_suit(trick)) ELSE TRUE

standard_move_validator(hand, trick, card) ==
    IF Len(trick) = 0 \/ led_suit(trick) = suit(card)
    THEN TRUE
    ELSE IF suit(card) # "None"
         THEN ~has_tarock(hand)
         ELSE IF led_suit(trick) # "None" THEN ~has_suit(hand, led_suit(trick)) ELSE TRUE

\* has_only_pagat
has_only_pagat(hand, card) ==
    is_pagat(card) /\ Cardinality({c \in hand : is_tarock(c)}) = 1

\* contains_mond_and_skis, over the set of the cards iterated
contains_mond_and_skis(cards) ==
    (\E c \in cards : is_mond(c)) /\ (\E c \in cards : is_skis(c))

\* negative_contract_move_validator
negative_contract_move_validator(hand, trick, card) ==
    IF Len(trick) = 0 THEN TRUE
    ELSE IF led_suit(trick) = suit(card)
    THEN LET eligible == [i \in 1..Len(trick) |->
                             suit(trick[i]) = led_suit(trick) \/ is_tarock(trick[i])]
             max == trick[max_by(trick, eligible, 1, 0)]
             trick_cards == {trick[i] : i \in 1..Len(trick)}
         IN IF is_pagat(card)
            THEN contains_mond_and_skis(trick_cards) \/ has_only_pagat(hand, card)
            ELSE IF /\ is_tarock(card)
                    /\ contains_mond_and_skis(trick_cards)
                    /\ Cardinality({c \in hand : is_pagat(c)}) = 1
            THEN FALSE
            ELSE \/ gt(card, max)
                 \/ ~(\E c \in hand : suit(c) = suit(max) /\ gt(c, max))
    ELSE IF suit(card) # "None" THEN ~has_tarock(hand)
    ELSE IF is_pagat(card)
    THEN contains_mond_and_skis(hand) \/ has_only_pagat(hand, card)
    ELSE /\ (led_suit(trick) # "None" => ~has_suit(hand, led_suit(trick)))
         /\ ~contains_mond_and_skis({trick[i] : i \in 1..Len(trick)})

\* MoveValidator::is_valid for a validator function, named by its name.
is_valid(validator, hand, trick, card) ==
    CASE validator = "standard_move_validator" -> standard_move_validator(hand, trick, card)
      [] validator = "negative_contract_move_validator" ->
            negative_contract_move_validator(hand, trick, card)

valid_moves(validator, hand, trick) ==
    {card \in hand : is_valid(validator, hand, trick, card)}

(***************************************************************************)
(* game.rs: StandardGame over the players arena.                           *)
(***************************************************************************)
\* StandardGame::new
StandardGame_new(ty, king, talon) ==
    [contract_type |-> ty, called_king |-> king, trick |-> <<>>,
     turn |-> start_with(NUM_PLAYERS, 1), talon |-> talon,
     trick_number |-> 1, done |-> FALSE]

\* Mutant of to_player_index: every trick is taken to be led by seat 1.
to_player_index_from_seat_one(turn, card_index) == (1 + card_index) % num_players(turn)

to_player_index(turn, card_index) ==
    (started_with(turn) + card_index) % num_players(turn)

\* Mutant of the accepted branch of StandardGame::play_card: the game is done as
\* soon as a trick is complete.
StandardGame_play_accepted_one_trick(g, ps, card) ==
    LET ps1 == [ps EXCEPT ![current(g.turn)].hand = remove_card(@, card)]
        trick1 == Append(g.trick, card)
    IN IF Len(trick1) = NUM_PLAYERS
       THEN LET card_index == standard_winner_strategy(trick1)
                idx == to_player_index(g.turn, card_index)
                ps2 == [ps1 EXCEPT ![idx].pile = add_trick(@, trick1)]
                turn2 == start_with(NUM_PLAYERS, ps2[idx].id)
                g2 == [g EXCEPT !.trick = <<>>, !.turn = turn2,
                                !.trick_number = @ + 1, !.done = TRUE]
            IN <<g2, ps2, Last>>
       ELSE LET turn2 == next(g.turn)
            IN <<[g EXCEPT !.trick = trick1, !.turn = turn2], ps1, Next_(current(turn2))>>

\* The accepted branch of StandardGame::play_card (game.rs lines 100 to 126).
StandardGame_play_accepted(g, ps, card) ==
    LET ps1 == [ps EXCEPT ![current(g.turn)].hand = remove_card(@, card)]
        trick1 == Append(g.trick, card)
    IN IF Len(trick1) = NUM_PLAYERS
       THEN LET card_index == standard_winner_strategy(trick1)
                idx == to_player_index(g.turn, card_index)
                ps2 == [ps1 EXCEPT ![idx].pile = add_trick(@, trick1)]
                turn2 == start_with(NUM_PLAYERS, ps2[idx].id)
                done2 == ps2[current(turn2)].hand = {}
                g2 == [g EXCEPT !.trick = <<>>, !.turn = turn2,
                                !.trick_number = @ + 1, !.done = done2]
            IN <<g2, ps2, IF done2 THEN Last ELSE Next_(current(turn2))>>
       ELSE LET turn2 == next(g.turn)
            IN <<[g EXCEPT !.trick = trick1, !.turn = turn2], ps1, Next_(current(turn2))>>

\* Mutant of StandardGame::play_card: the card leaves the hand before it is validated.
StandardGame_play_card_removes_first(g, ps, player, card) ==
    IF g.done THEN <<g, ps, Err("Done")>>
    ELSE IF player # current(g.turn) THEN <<g, ps, Err("NotPlayersTurn")>>
    ELSE IF ~standard_move_validator(ps[current(g.turn)].hand, g.trick, card)
    THEN <<g, [ps EXCEPT ![current(g.turn)].hand = remove_card(@, card)], Err("InvalidCard")>>
    ELSE StandardGame_play_accepted(g, ps, card)

\* Mutant of StandardGame::play_card: the card is validated before the turn is checked.
StandardGame_play_card_card_first(g, ps, player, card) ==
    IF g.done THEN <<g, ps, Err("Done")>>
    ELSE IF ~standard_move_validator(ps[current(g.turn)].hand, g.trick, card)
    THEN <<g, ps, Err("InvalidCard")>>
    ELSE IF player # current(g.turn) THEN <<g, ps, Err("NotPlayersTurn")>>
    ELSE StandardGame_play_accepted(g, ps, card)

\* StandardGame::play_card: the game and the players after the call, and the result.
StandardGame_play_card(g, ps, player, card) ==
    IF g.done THEN <<g, ps, Err("Done")>>
    ELSE IF player # current(g.turn) THEN <<g, ps, Err("NotPlayersTurn")>>
    ELSE IF ~standard_move_validator(ps[current(g.turn)].hand, g.trick, card)
    THEN <<g, ps, Err("InvalidCard")>>
    ELSE StandardGame_play_accepted(g, ps, card)

(***************************************************************************)
(* cards.rs: the deck and the deal.                                        *)
(***************************************************************************)
\* Deck::new: the cards in the order of CARDS.
Deck_new == [i \in 1..Cardinality(CARDS) |-> i - 1]

\* The strides of the orderings the model shuffles a deck into.  They have no
\* factor in common with the number of cards, and a product of two of them is one
\* of them again, so that a deck shuffled twice is a deck the model shuffles into.
Strides == {1, 17, 19, 35, 37, 53}

\* Deck::shuffle, for the random source that cuts the deck at `cut` and then
\* takes every `stride`-th card.
shuffle(cards, stride, cut) ==
    [i \in 1..Len(cards) |-> cards[((stride * (i - 1) + cut) % Len(cards)) + 1]]

\* The cards of the packets that deal_four_player_standard gives to a player.
packets_of(six_card_packets, player_index) ==
    UNION {{six_card_packets[p][i] : i \in 1..Len(six_card_packets[p])} :
              p \in {q \in 2..Len(six_card_packets) : (q - 2) % NUM_PLAYERS = player_index}}

\* Mutant of deal_four_player_standard: the talon packet is dealt to the first
\* player as well.
deal_four_player_standard_talon_dealt(cards) ==
    LET six_card_packets == chunks(cards, 6)
    IN [talon |-> six_card_packets[1],
        hands |-> [player_index \in 0..(NUM_PLAYERS - 1) |->
                      packets_of(six_card_packets, player_index)
                      \cup (IF player_index = 0
                            THEN {six_card_packets[1][i] : i \in 1..Len(six_card_packets[1])}
                            ELSE {})]]

\* deal_four_player_standard
deal_four_player_standard(cards) ==
    LET six_card_packets == chunks(cards, 6)
    IN [talon |-> six_card_packets[1],
        hands |-> [player_index \in 0..(NUM_PLAYERS - 1) |->
                      packets_of(six_card_packets, player_index)]]

(***************************************************************************)
(* player.rs: the players of a contract; scoring.rs: the scores.  A map of *)
(* scores is a function from the players that have an entry.               *)
(***************************************************************************)
\* Half of the points of the deck; the constant is imported from cards.rs by
\* scoring.rs and is not in the source.
HALF_POINTS == 35

\* The cards of the deck and of the talon; imported from cards.rs by scoring.rs.
NUM_CARDS == 54

TALON_SIZE == 6

\* Contract::is_beggar and Contract::is_valat, called by score.
is_beggar(contract) == contract \in {BEGGAR_NORMAL, BEGGAR_OPEN}

is_valat(contract) == contract \in {VALAT_COLOR, VALAT_NORMAL}

\* Pile::add_pile, called by score_normal: the cards of the other pile are added.
add_pile(pile, other) == pile \o other

\* No partner: Option<PlayerId> is None.
NoPartner == -1

\* Players::new(n), with the piles the players have won.
Players_new(piles) ==
    [id \in PlayerId |-> [id |-> id, hand |-> {}, pile |-> piles[id], partner |-> NoPartner]]

\* Player::set_partner on the player `id` (no call when there is no partner).
set_partner(ps, id, partner) ==
    IF partner = NoPartner THEN ps ELSE [ps EXCEPT ![id].partner = partner]

\* Players::play_contract
play_contract(ps, declarer, contract) ==
    [declarer |-> declarer, players |-> ps, contract |-> contract]

\* ContractPlayers::scoring_players: the ids of the scoring players, in order.
scoring_players(cp) ==
    IF is_klop(cp.contract) THEN [i \in 1..Cardinality(DOMAIN cp.players) |-> i - 1]
    ELSE IF cp.players[cp.declarer].partner # NoPartner
    THEN <<cp.declarer, cp.players[cp.declarer].partner>>
    ELSE <<cp.declarer>>

\* score_sign, given the value of the condition
score_sign(cond) == IF cond THEN 1 ELSE -1

\* Mutant of round_score: the score is truncated to a multiple of 5.
round_score_truncates(score) ==
    IF score >= 0 THEN (score \div 5) * 5 ELSE -(((-score) \div 5) * 5)

\* round_score: f64::round rounds half away from zero, and score / 5.0 is exact
\* enough for the scores of the game.
round_score(score) ==
    IF score >= 0 THEN ((2 * score + 5) \div 10) * 5
    ELSE -(((2 * (-score) + 5) \div 10) * 5)

RECURSIVE add_piles(_, _, _, _)
\* The first loop of score_normal: the piles of the scoring players are added to
\* one pile.
add_piles(cp, scoring, i, pile) ==
    IF i > Len(scoring) THEN pile
    ELSE add_piles(cp, scoring, i + 1, add_pile(pile, cp.players[scoring[i]].pile))

\* Mutant of score_normal: the contract is won with half of the points.
score_normal_wins_with_half(cp) ==
    LET scoring == scoring_players(cp)
        score == Pile_score(add_piles(cp, scoring, 1, <<>>))
    IN [player_id \in {scoring[i] : i \in 1..Len(scoring)} |->
           round_score(score_sign(score >= HALF_POINTS) * (score + contract_value(cp.contract)))]

\* score_normal
score_normal(cp) ==
    LET scoring == scoring_players(cp)
        score == Pile_score(add_piles(cp, scoring, 1, <<>>))
    IN [player_id \in {scoring[i] : i \in 1..Len(scoring)} |->
           round_score(score_sign(score > HALF_POINTS) * (score + contract_value(cp.contract)))]

is_winner(score) == score = 0

is_loser(score) == score < -HALF_POINTS

is_winner_loser(score) == is_winner(score) \/ is_loser(score)

\* Mutant of score_klop: with a winner or a loser, the other players keep their
\* rounded scores.
score_klop_others_keep(cp) ==
    LET scoring == scoring_players(cp)
        scores == [player_id \in {scoring[i] : i \in 1..Len(scoring)} |->
                      -Pile_score(cp.players[player_id].pile)]
    IN [player_id \in DOMAIN scores |->
           IF is_winner(scores[player_id]) THEN contract_value(KLOP)
           ELSE IF is_loser(scores[player_id]) THEN -contract_value(KLOP)
           ELSE round_score(scores[player_id])]

\* score_klop
score_klop(cp) ==
    LET scoring == scoring_players(cp)
        scores == [player_id \in {scoring[i] : i \in 1..Len(scoring)} |->
                      -Pile_score(cp.players[player_id].pile)]
        winner_loser == \E player_id \in DOMAIN scores : is_winner_loser(scores[player_id])
    IN IF ~winner_loser
       THEN [player_id \in DOMAIN scores |-> round_score(scores[player_id])]
       ELSE [player_id \in {p \in DOMAIN scores : is_winner_loser(scores[p])} |->
                IF is_winner(scores[player_id]) THEN contract_value(KLOP)
                ELSE -contract_value(KLOP)]

\* score_beggar; the assertion holds when the declarer has no partner.
score_beggar(cp) ==
    LET scoring == scoring_players(cp)
        score == score_sign(Len(cp.players[scoring[1]].pile) = 0) * contract_value(cp.contract)
    IN [player_id \in {scoring[1]} |-> score]

\* Mutant of score_valat: the declarer must have won all the cards of the deck.
score_valat_needs_talon(cp) ==
    LET scoring == scoring_players(cp)
        score == score_sign(Len(cp.players[scoring[1]].pile) >= NUM_CARDS)
                 * contract_value(cp.contract)
    IN [player_id \in {scoring[1]} |-> score]

\* score_valat; the assertion holds when the declarer has no partner.
score_valat(cp) ==
    LET scoring == scoring_players(cp)
        score == score_sign(Len(cp.players[scoring[1]].pile) >= NUM_CARDS - TALON_SIZE)
                 * contract_value(cp.contract)
    IN [player_id \in {scoring[1]} |-> score]

\* score
score(cp) ==
    IF is_klop(cp.contract) THEN score_klop(cp)
    ELSE IF is_beggar(cp.contract) THEN score_beggar(cp)
    ELSE IF is_valat(cp.contract) THEN score_valat(cp)
    ELSE score_normal(cp)

(***************************************************************************)
(* The harness: only the object that `sys` names exists; the others are    *)
(* Absent and never change.                                                *)
(***************************************************************************)
Absent == "absent"

\* The objects as they are when a call is made.
Snapshot ==
    [players |-> players, bidder |-> bidder, ann |-> ann, game |-> game, order |-> order]

\* The caller takes the result of its call; the next call can be made.
Return ==
    /\ sys \in {"Bidder", "Announcements", "StandardGame"} /\ call.op # "None"
    /\ call' = NoCall /\ result' = NoResult
    /\ pre' = Snapshot
    /\ UNCHANGED <<sys, players, bidder, ann, game, args, order, hist>>

InitBidder ==
    /\ sys = "Bidder"
    /\ \E dealer \in PlayerId : bidder = Bidder_new(dealer)
    /\ players = Absent /\ ann = Absent /\ game = Absent /\ args = Absent
    /\ order = Absent /\ hist = [passed |-> <<>>]
    /\ call = NoCall /\ result = NoResult
    /\ pre = Snapshot

\* bidder.bid(&player, contract)
Bid(player, contract) ==
    /\ sys = "Bidder" /\ call.op = "None"
    /\ LET r == Bidder_bid(bidder, player, contract)
       IN bidder' = r[1] /\ result' = r[2]
    /\ UNCHANGED hist
    /\ call' = [op |-> "bid", player |-> player, arg |-> contract]
    /\ pre' = Snapshot
    /\ UNCHANGED <<sys, players, ann, game, args, order>>

\* bidder.pass(&player)
Pass(player) ==
    /\ sys = "Bidder" /\ call.op = "None"
    /\ LET r == Bidder_pass(bidder, player)
       IN /\ bidder' = r[1] /\ result' = r[2]
          /\ hist' = IF is_ok(r[2]) THEN [passed |-> Append(hist.passed, player)] ELSE hist
    /\ call' = [op |-> "pass", player |-> player, arg |-> "None"]
    /\ pre' = Snapshot
    /\ UNCHANGED <<sys, players, ann, game, args, order>>

NextBidder ==
    \/ \E player \in PlayerId, contract \in Contract : Bid(player, contract)
    \/ \E player \in PlayerId : Pass(player)
    \/ Return

SpecBidder == InitBidder /\ [][NextBidder]_vars

\* bonuses_allowed(&contract) for the contract of the bid that won the bidding.
BonusesAllowed ==
    /\ sys = "Bidder" /\ call.op = "None" /\ bidder.done
    /\ result' = ReturnedBool(bonuses_allowed(winner(bidder).contract))
    /\ call' = [op |-> "bonuses_allowed", player |-> -1, arg |-> winner(bidder).contract]
    /\ pre' = Snapshot
    /\ UNCHANGED <<sys, players, bidder, ann, game, args, order, hist>>

NextBidding ==
    \/ NextBidder
    \/ BonusesAllowed

\* The bidding, and after it the question whether bonuses may be announced.
SpecBidding == InitBidder /\ [][NextBidding]_vars

\* The hands of the players that announce: who holds the Pagat and who holds
\* the king of clubs; player 0 also holds the king of hearts.
AnnouncingPlayers(pagat_holder, king_holder) ==
    [id \in PlayerId |->
        Player_new(id, (IF id = pagat_holder THEN {CARD_TAROCK_PAGAT} ELSE {})
                       \cup (IF id = king_holder THEN {SuitCard(King, "Clubs")} ELSE {})
                       \cup (IF id = 0 THEN {SuitCard(King, "Hearts")} ELSE {}))]

InitAnnouncements ==
    /\ sys = "Announcements"
    /\ \E pagat_holder \in PlayerId, king_holder \in PlayerId :
          players = AnnouncingPlayers(pagat_holder, king_holder)
    /\ \E declarer \in PlayerId, king \in {"None", "Clubs", "Hearts"} :
          /\ ann = IF king = "None" THEN Announcements_new(players[declarer])
                   ELSE Announcements_with_king(players[declarer], king)
          /\ hist = [acted |-> <<>>, declarer |-> declarer]
    /\ bidder = Absent /\ game = Absent /\ args = Absent
    /\ order = Absent
    /\ call = NoCall /\ result = NoResult
    /\ pre = Snapshot

\* ann.announce(&players[player], &bonuses)
Announce(player, bonuses) ==
    /\ sys = "Announcements" /\ call.op = "None"
    /\ LET r == Announcements_announce(ann, players[player], bonuses)
       IN /\ ann' = r[1] /\ result' = r[2]
          /\ hist' = IF is_ok(r[2]) THEN [hist EXCEPT !.acted = Append(@, player)] ELSE hist
    /\ call' = [op |-> "announce", player |-> player, arg |-> bonuses]
    /\ pre' = Snapshot
    /\ UNCHANGED <<sys, players, bidder, game, args, order>>

\* ann.pass(&players[player])
AnnouncePass(player) ==
    /\ sys = "Announcements" /\ call.op = "None"
    /\ LET r == Announcements_pass(ann, players[player])
       IN /\ ann' = r[1] /\ result' = r[2]
          /\ hist' = IF is_ok(r[2]) THEN [hist EXCEPT !.acted = Append(@, player)] ELSE hist
    /\ call' = [op |-> "announce_pass", player |-> player, arg |-> "None"]
    /\ pre' = Snapshot
    /\ UNCHANGED <<sys, players, bidder, game, args, order>>

NextAnnouncements ==
    \/ \E player \in PlayerId, bonuses \in SUBSET BonusType : Announce(player, bonuses)
    \/ \E player \in PlayerId : AnnouncePass(player)
    \/ Return

SpecAnnouncements == InitAnnouncements /\ [][NextAnnouncements]_vars

\* The hands dealt in the model's games (those of game.rs's tests), one row a hand.
BaseHands ==
    << {CARD_TAROCK_SKIS, SuitCard(Eight, "Hearts")},
       {TarockCard(Tarock10), SuitCard(Nine, "Hearts")},
       {SuitCard(Jack, "Hearts"), SuitCard(Eight, "Clubs")},
       {CARD_TAROCK_MOND, SuitCard(Jack, "Spades")} >>

\* A card that no player is dealt.
UndealtCard == SuitCard(Nine, "Diamonds")

GameCards == UNION {BaseHands[row] : row \in 1..4} \cup {UndealtCard}

\* The deals: the base hands, given to the seats in every rotation.
DealtPlayers(rotation) ==
    [id \in PlayerId |-> Player_new(id, BaseHands[((id + rotation) % NUM_PLAYERS) + 1])]

Sum4(f) == f[0] + f[1] + f[2] + f[3]

\* Cards on the table and in the piles.
CardsPlayed == Len(game.trick) + Sum4([id \in PlayerId |-> Len(players[id].pile)])

\* Cards that have left the hands.
CardsGone ==
    Sum4([id \in PlayerId |-> Cardinality(BaseHands[id + 1]) - Cardinality(players[id].hand)])

InitStandardGame ==
    /\ sys = "StandardGame"
    /\ \E rotation \in 0..3 : players = DealtPlayers(rotation)
    /\ game = StandardGame_new("Three", "Hearts", <<>>)
    /\ bidder = Absent /\ ann = Absent /\ args = Absent
    /\ order = Absent /\ hist = [by |-> <<>>]
    /\ call = NoCall /\ result = NoResult
    /\ pre = Snapshot

\* game.play_card(player, card).  The model follows at most MaxAbsentPlays accepted
\* plays of a card that the player does not hold.
PlayCard(player, card) ==
    /\ sys = "StandardGame" /\ call.op = "None"
    /\ LET r == StandardGame_play_card(game, players, player, card)
       IN /\ \/ is_err(r[3])
             \/ card \in players[player].hand
             \/ CardsPlayed - CardsGone < MaxAbsentPlays
          /\ game' = r[1] /\ players' = r[2] /\ result' = r[3]
          /\ hist' = IF is_err(r[3]) THEN hist
                     ELSE IF Len(game.trick) = 0 THEN [by |-> <<player>>]
                     ELSE [by |-> Append(hist.by, player)]
    /\ call' = [op |-> "play_card", player |-> player, arg |-> card]
    /\ pre' = Snapshot
    /\ UNCHANGED <<sys, bidder, ann, args, order>>

NextStandardGame ==
    \/ \E player \in PlayerId, card \in GameCards : PlayCard(player, card)
    \/ Return

SpecStandardGame == InitStandardGame /\ [][NextStandardGame]_vars

\* The hands of the games that are played to their end, one row a hand, the cards
\* in the order in which a hand of fewer cards takes them.
TrickHands ==
    << <<CARD_TAROCK_SKIS, SuitCard(Eight, "Hearts"), SuitCard(King, "Clubs"),
         SuitCard(Queen, "Diamonds")>>,
       <<TarockCard(Tarock10), SuitCard(Nine, "Hearts"), SuitCard(Seven, "Spades"),
         TarockCard(Tarock13)>>,
       <<SuitCard(Jack, "Hearts"), SuitCard(Eight, "Clubs"), CARD_TAROCK_PAGAT,
         SuitCard(King, "Spades")>>,
       <<CARD_TAROCK_MOND, SuitCard(Jack, "Spades"), SuitCard(Nine, "Diamonds"),
         TarockCard(Tarock2)>> >>

TrickCards == UNION {{TrickHands[row][i] : i \in 1..Len(TrickHands[row])} : row \in 1..4}

\* Four disjoint hands of n cards each, given to the seats in every rotation.
InitTrickPlay ==
    /\ sys = "StandardGame"
    /\ \E n \in 1..MaxTricks, rotation \in 0..3 :
          /\ n <= Len(TrickHands[1])
          /\ players = [id \in PlayerId |->
                           Player_new(id, {TrickHands[((id + rotation) % NUM_PLAYERS) + 1][i] :
                                              i \in 1..n})]
          /\ args = [hand_size |-> n]
    /\ game = StandardGame_new("Three", "Hearts", <<>>)
    /\ bidder = Absent /\ ann = Absent
    /\ order = Absent /\ hist = [by |-> <<>>]
    /\ call = NoCall /\ result = NoResult
    /\ pre = Snapshot

\* game.play_card(player, card) by a player who holds the card.
PlayHeldCard(player, card) ==
    /\ sys = "StandardGame" /\ call.op = "None"
    /\ card \in players[player].hand
    /\ LET r == StandardGame_play_card(game, players, player, card)
       IN /\ game' = r[1] /\ players' = r[2] /\ result' = r[3]
          /\ hist' = IF is_err(r[3]) THEN hist
                     ELSE IF Len(game.trick) = 0 THEN [by |-> <<player>>]
                     ELSE [by |-> Append(hist.by, player)]
    /\ call' = [op |-> "play_card", player |-> player, arg |-> card]
    /\ pre' = Snapshot
    /\ UNCHANGED <<sys, bidder, ann, args, order>>

NextTrickPlay ==
    \/ \E player \in PlayerId, card \in TrickCards : PlayHeldCard(player, card)
    \/ Return

\* Games of hands of 1 to MaxTricks cards in which the players play cards they hold.
SpecTrickPlay == InitTrickPlay /\ [][NextTrickPlay]_vars

\* The cards given to the move validators: three spades, a heart, a diamond and
\* five tarocks, the Trula among them.
MoveCards ==
    {SuitCard(Eight, "Spades"), SuitCard(Knight, "Spades"), SuitCard(King, "Spades"),
     SuitCard(Jack, "Hearts"), SuitCard(Queen, "Diamonds"),
     CARD_TAROCK_PAGAT, TarockCard(Tarock2), TarockCard(Tarock13),
     CARD_TAROCK_MOND, CARD_TAROCK_SKIS}

\* The tricks of n distinct cards.
TricksOf(cards, n) ==
    {t \in [1..n -> cards] : \A i, j \in 1..n : i # j => t[i] # t[j]}

\* A hand of 1 to MaxHand cards meets a trick of 0 to 3 cards played by others.
InitValidMoves ==
    /\ sys = "valid_moves"
    /\ \E hand \in {h \in SUBSET MoveCards : Cardinality(h) \in 1..MaxHand} :
          \E n \in 0..3 :
             \E trick \in TricksOf(MoveCards \ hand, n) :
                args = [hand |-> hand, trick |-> trick]
    /\ players = Absent /\ bidder = Absent /\ ann = Absent /\ game = Absent
    /\ order = Absent /\ hist = Absent
    /\ call = NoCall /\ result = NoResult
    /\ pre = Snapshot

\* valid_moves(standard_move_validator, &hand, &trick)
StandardValidMoves ==
    /\ sys = "valid_moves" /\ call.op = "None"
    /\ result' = valid_moves("standard_move_validator", args.hand, args.trick)
    /\ call' = [op |-> "valid_moves_standard", player |-> -1, arg |-> "None"]
    /\ pre' = Snapshot
    /\ UNCHANGED <<sys, players, bidder, ann, game, args, order, hist>>

\* valid_moves(negative_contract_move_validator, &hand, &trick)
NegativeValidMoves ==
    /\ sys = "valid_moves" /\ call.op = "None"
    /\ result' = valid_moves("negative_contract_move_validator", args.hand, args.trick)
    /\ call' = [op |-> "valid_moves_negative", player |-> -1, arg |-> "None"]
    /\ pre' = Snapshot
    /\ UNCHANGED <<sys, players, bidder, ann, game, args, order, hist>>

\* The caller takes the set of valid moves.
ReturnMoves ==
    /\ sys = "valid_moves" /\ call.op # "None"
    /\ call' = NoCall /\ result' = NoResult
    /\ UNCHANGED <<sys, players, bidder, ann, game, args, pre, order, hist>>

NextValidMoves ==
    \/ StandardValidMoves
    \/ NegativeValidMoves
    \/ ReturnMoves

SpecValidMoves == InitValidMoves /\ [][NextValidMoves]_vars

\* PlayerTurn::start_with(num_players, first) for a first player of the roster.
InitPlayerTurn ==
    /\ sys = "PlayerTurn"
    /\ \E n \in 1..MaxTurnPlayers, first \in 0..(MaxTurnPlayers - 1) :
          first < n /\ order = start_with(n, first)
    /\ players = Absent /\ bidder = Absent /\ ann = Absent /\ game = Absent
    /\ args = Absent /\ hist = Absent
    /\ call = NoCall /\ result = NoResult
    /\ pre = Snapshot

\* order.next()
TurnNext ==
    /\ sys = "PlayerTurn" /\ call.op = "None"
    /\ order' = next(order)
    /\ result' = Returned(current(order'))
    /\ call' = [op |-> "next", player |-> -1, arg |-> "None"]
    /\ pre' = Snapshot
    /\ UNCHANGED <<sys, players, bidder, ann, game, args, hist>>

\* order.remove()
TurnRemove ==
    /\ sys = "PlayerTurn" /\ call.op = "None"
    /\ order' = remove(order)
    /\ result' = Returned(current(order'))
    /\ call' = [op |-> "remove", player |-> -1, arg |-> "None"]
    /\ pre' = Snapshot
    /\ UNCHANGED <<sys, players, bidder, ann, game, args, hist>>

\* The caller takes the player returned.
TurnReturn ==
    /\ sys = "PlayerTurn" /\ call.op # "None"
    /\ call' = NoCall /\ result' = NoResult
    /\ pre' = Snapshot
    /\ UNCHANGED <<sys, players, bidder, ann, game, args, order, hist>>

NextPlayerTurn ==
    \/ TurnNext
    \/ TurnRemove
    \/ TurnReturn

SpecPlayerTurn == InitPlayerTurn /\ [][NextPlayerTurn]_vars

\* A trick of 1 to NUM_PLAYERS distinct cards is given to a winner strategy.
InitWinner ==
    /\ sys = "winner_strategy"
    /\ \E n \in 1..NUM_PLAYERS :
          \E cards \in TricksOf(MoveCards, n) : args = [cards |-> cards]
    /\ players = Absent /\ bidder = Absent /\ ann = Absent /\ game = Absent
    /\ order = Absent /\ hist = Absent
    /\ call = NoCall /\ result = NoResult
    /\ pre = Snapshot

\* standard_winner_strategy(cards)
StandardWinner ==
    /\ sys = "winner_strategy" /\ call.op = "None"
    /\ result' = standard_winner_strategy(args.cards)
    /\ call' = [op |-> "standard_winner_strategy", player |-> -1, arg |-> "None"]
    /\ pre' = Snapshot
    /\ UNCHANGED <<sys, players, bidder, ann, game, args, order, hist>>

\* color_valat_winner_strategy(cards)
ColorValatWinner ==
    /\ sys = "winner_strategy" /\ call.op = "None"
    /\ result' = color_valat_winner_strategy(args.cards)
    /\ call' = [op |-> "color_valat_winner_strategy", player |-> -1, arg |-> "None"]
    /\ pre' = Snapshot
    /\ UNCHANGED <<sys, players, bidder, ann, game, args, order, hist>>

\* The caller takes the index of the winning card.
ReturnWinner ==
    /\ sys = "winner_strategy" /\ call.op # "None"
    /\ call' = NoCall /\ result' = NoResult
    /\ UNCHANGED <<sys, players, bidder, ann, game, args, pre, order, hist>>

NextWinner ==
    \/ StandardWinner
    \/ ColorValatWinner
    \/ ReturnWinner

SpecWinner == InitWinner /\ [][NextWinner]_vars

\* Deck::new(): the unshuffled deck.
InitDeck ==
    /\ sys = "Deck"
    /\ args = [cards |-> Deck_new, shuffled |-> FALSE]
    /\ players = Absent /\ bidder = Absent /\ ann = Absent /\ game = Absent
    /\ order = Absent /\ hist = Absent
    /\ call = NoCall /\ result = NoResult
    /\ pre = Snapshot

\* deck.shuffle(rng): a deck, shuffled or not, becomes a shuffled deck.
Shuffle(stride, cut) ==
    /\ sys = "Deck" /\ call.op = "None"
    /\ args' = [cards |-> shuffle(args.cards, stride, cut), shuffled |-> TRUE]
    /\ UNCHANGED <<sys, players, bidder, ann, game, call, result, pre, order, hist>>

\* deck.deal(deal_four_player_standard), which only a shuffled deck offers.
Deal ==
    /\ sys = "Deck" /\ call.op = "None" /\ args.shuffled
    /\ result' = deal_four_player_standard(args.cards)
    /\ call' = [op |-> "deal", player |-> -1, arg |-> "None"]
    /\ UNCHANGED <<sys, players, bidder, ann, game, args, pre, order, hist>>

\* The first split_at cards of the deck are added to one pile and the others to a
\* second pile (deck_to_piles of the tests of cards.rs), and both piles are scored.
ScorePiles(split_at) ==
    /\ sys = "Deck" /\ call.op = "None"
    /\ result' = [pile_one |-> Pile_score(SubSeq(args.cards, 1, split_at)),
                  pile_two |-> Pile_score(SubSeq(args.cards, split_at + 1, Len(args.cards)))]
    /\ call' = [op |-> "score", player |-> -1, arg |-> split_at]
    /\ UNCHANGED <<sys, players, bidder, ann, game, args, pre, order, hist>>

\* The caller takes the deal or the scores.
ReturnDeck ==
    /\ sys = "Deck" /\ call.op # "None"
    /\ call' = NoCall /\ result' = NoResult
    /\ UNCHANGED <<sys, players, bidder, ann, game, args, pre, order, hist>>

NextDeck ==
    \/ \E stride \in Strides, cut \in 0..(Cardinality(CARDS) - 1) : Shuffle(stride, cut)
    \/ Deal
    \/ \E split_at \in 0..Cardinality(CARDS) : ScorePiles(split_at)
    \/ ReturnDeck

SpecDeck == InitDeck /\ [][NextDeck]_vars

\* The strides of the decks whose cards the scored piles are made of.
ScoringStrides == {1, 5}

\* The tricks of a game of four players: the cards outside the talon, four a trick.
NumTricks == (NUM_CARDS - TALON_SIZE) \div NUM_PLAYERS

\* The piles after the last trick: the 48 cards outside the talon of a deck, in
\* tricks of four; player 0 has won the first tricks, player 1 the following ones,
\* and so on, and a player may have won none.
InitScoring ==
    /\ sys = "score"
    /\ \E stride \in ScoringStrides :
          \E c1 \in 0..NumTricks, c2 \in 0..NumTricks, c3 \in 0..NumTricks :
             /\ c1 <= c2 /\ c2 <= c3
             /\ LET cards == shuffle(Deck_new, stride, 0)
                    played == SubSeq(cards, TALON_SIZE + 1, Len(cards))
                    cuts == <<0, c1, c2, c3, NumTricks>>
                IN players = Players_new([id \in PlayerId |->
                                 SubSeq(played, NUM_PLAYERS * cuts[id + 1] + 1,
                                                NUM_PLAYERS * cuts[id + 2])])
    /\ bidder = Absent /\ ann = Absent /\ game = Absent /\ args = Absent
    /\ order = Absent /\ hist = Absent
    /\ call = NoCall /\ result = NoResult
    /\ pre = Snapshot

\* score(&players.play_contract(declarer, contract)), after set_partner on the
\* declarer when the declarer of a normal contract has a partner.
Score(declarer, partner, contract) ==
    /\ sys = "score" /\ call.op = "None"
    /\ partner # declarer
    /\ partner # NoPartner =>
          ~is_klop(contract) /\ ~is_beggar(contract) /\ ~is_valat(contract)
    /\ result' = score(play_contract(set_partner(players, declarer, partner),
                                     declarer, contract))
    /\ args' = [declarer |-> declarer, partner |-> partner, contract |-> contract]
    /\ call' = [op |-> "score", player |-> declarer, arg |-> contract]
    /\ UNCHANGED <<sys, players, bidder, ann, game, pre, order, hist>>

\* The caller takes the scores.
ReturnScore ==
    /\ sys = "score" /\ call.op # "None"
    /\ call' = NoCall /\ result' = NoResult /\ args' = Absent
    /\ UNCHANGED <<sys, players, bidder, ann, game, pre, order, hist>>

NextScoring ==
    \/ \E declarer \in PlayerId, partner \in PlayerId \cup {NoPartner}, contract \in Contract :
          Score(declarer, partner, contract)
    \/ ReturnScore

SpecScoring == InitScoring /\ [][NextScoring]_vars

(***************************************************************************)
(* The three state machines together: one of them is constructed.          *)
(***************************************************************************)
Init == InitBidder \/ InitAnnouncements \/ InitStandardGame

Next ==
    \/ \E player \in PlayerId, contract \in Contract : Bid(player, contract)
    \/ \E player \in PlayerId : Pass(player)
    \/ \E player \in PlayerId, bonuses \in SUBSET BonusType : Announce(player, bonuses)
    \/ \E player \in PlayerId : AnnouncePass(player)
    \/ \E player \in PlayerId, card \in GameCards : PlayCard(player, card)
    \/ Return

Spec == Init /\ [][Next]_vars

(***************************************************************************)
(* Bidding: the priority rule and the Klop and MustBid rules.              *)
(***************************************************************************)
\* The position of a player in the bid order, counted from the forehand.
BidOrderRank(b, player) == (player + NUM_PLAYERS - b.forehand) % NUM_PLAYERS

\* The last call was a bid by the current player of a bidding not yet done.
BidByCurrent ==
    /\ sys = "Bidder" /\ call.op = "bid"
    /\ ~pre.bidder.done /\ call.player = current(pre.bidder.turn)

\* The last call was a pass by the current player of a bidding not yet done.
PassByCurrent ==
    /\ sys = "Bidder" /\ call.op = "pass"
    /\ ~pre.bidder.done /\ call.player = current(pre.bidder.turn)

BidderEarlierOrSame ==
    BidOrderRank(pre.bidder, call.player) <= BidOrderRank(pre.bidder, pre.bidder.highest.player)

BidValue == contract_value(call.arg)

HighestValue == contract_value(pre.bidder.highest.contract)

\* C1 as stated: a bidder whose rank is less than or equal to the rank of the
\* holder of the highest bid is accepted only with a strictly greater value, and a
\* bidder of strictly greater rank is accepted with an equal or greater value.
C1_PriorityRuleAsStated ==
    BidByCurrent /\ result # Err("InvalidContract") =>
        IF BidderEarlierOrSame
        THEN is_ok(result) <=> BidValue > HighestValue
        ELSE is_ok(result) <=> BidValue >= HighestValue

\* C1 amended: a bidder whose rank is less than or equal to the rank of the holder
\* of the highest bid is accepted exactly with an equal or greater value; a bidder
\* of strictly greater rank is accepted exactly with a strictly greater value; a
\* bid that is not accepted (and is not an inadmissible Klop) is ContractTooLow.
C1_PriorityRule ==
    BidByCurrent /\ result # Err("InvalidContract") =>
        /\ IF BidderEarlierOrSame
           THEN is_ok(result) <=> BidValue >= HighestValue
           ELSE is_ok(result) <=> BidValue > HighestValue
        /\ ~is_ok(result) => result = Err("ContractTooLow")

\* C1 witness: a bidder earlier in the bid order than the holder of the highest
\* bid bid a contract of equal value and was accepted.
C1_Witness ==
    /\ BidByCurrent /\ BidValue = HighestValue
    /\ BidderEarlierOrSame /\ is_ok(result)
    /\ call.player # pre.bidder.highest.player

C9_MustBid ==
    PassByCurrent =>
        /\ result = Err("MustBid") <=>
              \/ /\ call.player = pre.bidder.forehand
                 /\ pre.bidder.highest.contract = DEFAULT_CONTRACT
              \/ Len(pre.bidder.turn.players) = 1
        /\ result # Err("MustBid") =>
              /\ is_ok(result)
              /\ Len(bidder.turn.players) = Len(pre.bidder.turn.players) - 1

\* C9 witness: the only bidder left, not the forehand, passed and got MustBid.
C9_Witness ==
    /\ PassByCurrent /\ result = Err("MustBid")
    /\ Len(pre.bidder.turn.players) = 1
    /\ call.player # pre.bidder.forehand

\* C10: a bid of Klop by the current player returns InvalidContract unless the
\* player is the forehand and the highest contract is still the default, and is
\* accepted then; whoever calls, an accepted Klop was bid by the forehand over the
\* default contract, and the highest contract never returns to the default.
C10_KlopOnlyForehandOverDefault ==
    /\ BidByCurrent /\ call.arg = KLOP =>
          /\ result = Err("InvalidContract") <=>
                ~(/\ call.player = pre.bidder.forehand
                  /\ pre.bidder.highest.contract = DEFAULT_CONTRACT)
          /\ result # Err("InvalidContract") => is_ok(result)
    /\ sys = "Bidder" /\ call.op = "bid" /\ call.arg = KLOP /\ is_ok(result) =>
          /\ call.player = pre.bidder.forehand
          /\ pre.bidder.highest.contract = DEFAULT_CONTRACT
    /\ sys = "Bidder" /\ pre.bidder.highest.contract # DEFAULT_CONTRACT =>
          bidder.highest.contract # DEFAULT_CONTRACT

\* C10 witness: the forehand bid Klop after a bid above the default and was
\* refused with InvalidContract.
C10_Witness ==
    /\ BidByCurrent /\ call.arg = KLOP
    /\ call.player = pre.bidder.forehand
    /\ pre.bidder.highest.contract # DEFAULT_CONTRACT
    /\ result = Err("InvalidContract")

(***************************************************************************)
(* Playing: cards not held, card conservation, rejected calls, Done.       *)
(***************************************************************************)
\* The last call was a play by the current player of a game not yet finished.
PlayByCurrent ==
    /\ sys = "StandardGame" /\ call.op = "play_card"
    /\ ~pre.game.done /\ call.player = current(pre.game.turn)

\* How many times a card occurs in the hands, the current trick and the piles.
Occurrences(card) ==
    Sum4([id \in PlayerId |-> IF card \in players[id].hand THEN 1 ELSE 0])
    + Cardinality({i \in 1..Len(game.trick) : game.trick[i] = card})
    + Sum4([id \in PlayerId |->
               Cardinality({i \in 1..Len(players[id].pile) : players[id].pile[i] = card})])

\* The cards in the hands when the game was constructed.
DealtCards == UNION {BaseHands[row] : row \in 1..4}

\* C3: when the game is not finished, a play by the current player of a card
\* that is not in that player's hand returns InvalidCard, whatever the trick holds.
C3_AbsentCardIsInvalid ==
    PlayByCurrent /\ call.arg \notin pre.players[call.player].hand =>
        result = Err("InvalidCard")

\* C4: every card that was in a hand when the game was constructed is in exactly
\* one place among the hands, the current trick and the piles, and no card occurs
\* twice across them.
C4_CardConservation ==
    sys = "StandardGame" =>
        \A card \in GameCards :
            IF card \in DealtCards THEN Occurrences(card) = 1 ELSE Occurrences(card) <= 1

\* C7: a call that returned an error left the players, the bidder, the
\* announcements and the game exactly as they were when the call was made.
C7_RejectedCallChangesNothing ==
    is_err(result) => Snapshot = pre

\* C7 witness: a card was refused in the middle of a trick, after accepted plays.
C7_Witness ==
    /\ PlayByCurrent /\ result = Err("InvalidCard")
    /\ Len(pre.game.trick) > 0
    /\ call.arg \in pre.players[call.player].hand

\* Whether the object under test was done when the last call was made, and now.
DoneBefore ==
    CASE sys = "Bidder" -> pre.bidder.done
      [] sys = "Announcements" -> pre.ann.done
      [] sys = "StandardGame" -> pre.game.done
      [] OTHER -> FALSE

DoneNow ==
    CASE sys = "Bidder" -> bidder.done
      [] sys = "Announcements" -> ann.done
      [] sys = "StandardGame" -> game.done
      [] OTHER -> FALSE

\* Whether the caller of the last call was the current player when it was made.
CallByCurrent ==
    CASE sys = "Bidder" -> call.player = current(pre.bidder.turn)
      [] sys = "Announcements" -> call.player = current(pre.ann.turn)
      [] sys = "StandardGame" -> call.player = current(pre.game.turn)
      [] OTHER -> FALSE

\* C8: an object that returned Last is done; a done object stays done, and every
\* call on it returns Done, whoever calls and whatever the argument.
C8_DoneIsAbsorbing ==
    /\ result = Last => DoneNow
    /\ DoneBefore => DoneNow
    /\ call.op # "None" /\ DoneBefore => result = Err("Done")

\* C8 witness: a finished game was asked to play by a player who is not the
\* current one, and answered Done.
C8_Witness ==
    /\ sys = "StandardGame" /\ call.op = "play_card"
    /\ pre.game.done /\ ~CallByCurrent
    /\ result = Err("Done")

(***************************************************************************)
(* Playing: which cards follow a led suit.                                 *)
(***************************************************************************)
\* The validator was asked for the moves on a trick led by a suit card.
SuitLed ==
    /\ sys = "valid_moves" /\ call.op = "valid_moves_standard"
    /\ Len(args.trick) > 0 /\ led_suit(args.trick) # "None"

\* C5: a hand that holds a card of the led suit may play only cards of that
\* suit; its cards of other suits and its trumps are not valid moves.
C5_MustFollowSuit ==
    SuitLed /\ has_suit(args.hand, led_suit(args.trick)) =>
        result = {card \in args.hand : suit(card) = led_suit(args.trick)}

\* C6: a hand that holds no card of the led suit may play exactly its trumps if
\* it holds any, and any of its cards if it holds none.
C6_CannotFollowSuit ==
    SuitLed /\ ~has_suit(args.hand, led_suit(args.trick)) =>
        result = IF has_tarock(args.hand)
                 THEN {card \in args.hand : is_tarock(card)}
                 ELSE args.hand

\* C6 witness: a hand with a trump and a card of a suit other than the led one.
C6_Witness ==
    /\ SuitLed /\ ~has_suit(args.hand, led_suit(args.trick))
    /\ has_tarock(args.hand)
    /\ \E card \in args.hand : ~is_tarock(card)
    /\ result # args.hand /\ result # {}

(***************************************************************************)
(* Bidding: how it ends, and who has left it.                              *)
(***************************************************************************)
\* The players whose pass was accepted.
Passed == {hist.passed[i] : i \in 1..Len(hist.passed)}

\* C11: an accepted bid of Klop returns Last: it was made by the forehand, the
\* only bidder left after the three other players passed, and the bidding is done
\* with the forehand's Klop as the winning bid.
C11_AcceptedKlopIsLast ==
    sys = "Bidder" /\ call.op = "bid" /\ call.arg = KLOP /\ is_ok(result) =>
        /\ result = Last
        /\ call.player = pre.bidder.forehand
        /\ current_players(pre.bidder.turn) = 1
        /\ Passed = PlayerId \ {pre.bidder.forehand}
        /\ bidder.done
        /\ winner(bidder).contract = KLOP
        /\ winner(bidder).player = pre.bidder.forehand

\* C11 witness: the forehand's Klop ended the bidding.
C11_Witness ==
    /\ sys = "Bidder" /\ call.op = "bid" /\ call.arg = KLOP
    /\ result = Last /\ bidder.done
    /\ Len(hist.passed) = 3

\* C12: the bidder becomes done exactly at an accepted bid made while one bidder
\* is left, and exactly that call returns Last; an accepted pass returns Next and
\* leaves the bidding open; winner() is None until done and then the last
\* accepted bid, which only an accepted bid replaces.
C12_DoneAtLastBid ==
    sys = "Bidder" =>
        /\ call.op = "None" /\ ~bidder.done => winner(bidder) = "None"
        /\ call.op # "None" =>
              /\ (bidder.done /\ ~pre.bidder.done) <=>
                    /\ call.op = "bid" /\ is_ok(result)
                    /\ current_players(pre.bidder.turn) = 1
              /\ result = Last <=> (bidder.done /\ ~pre.bidder.done)
              /\ call.op = "pass" /\ is_ok(result) =>
                    result.tag = "Next" /\ ~bidder.done
              /\ IF call.op = "bid" /\ is_ok(result)
                 THEN /\ bidder.highest.player = call.player
                      /\ bidder.highest.contract = call.arg
                 ELSE bidder.highest = pre.bidder.highest
              /\ IF bidder.done
                 THEN winner(bidder) = bidder.highest
                 ELSE winner(bidder) = "None"

\* C12 witness: a player other than the forehand ended the bidding with a bid.
C12_Witness ==
    /\ sys = "Bidder" /\ call.op = "bid" /\ result = Last
    /\ call.arg # KLOP /\ call.player # bidder.forehand
    /\ winner(bidder).contract = call.arg

\* C13: a player whose pass was accepted passes only once, is never the current
\* bidder again and is never named by a Next result; every later bid or pass of
\* that player returns NotPlayersTurn or Done.
C13_PassedPlayerIsOut ==
    sys = "Bidder" =>
        /\ \A i, j \in 1..Len(hist.passed) : i # j => hist.passed[i] # hist.passed[j]
        /\ current(bidder.turn) \notin Passed
        /\ result.tag = "Next" => result.player \notin Passed
        /\ /\ call.op # "None" /\ call.player \in Passed
           /\ ~(call.op = "pass" /\ is_ok(result))
           => result \in {Err("NotPlayersTurn"), Err("Done")}

\* C13 witness: in an open bidding a player who passed bid again, after the turn
\* had gone round, and got NotPlayersTurn.
C13_Witness ==
    /\ sys = "Bidder" /\ call.op = "bid" /\ ~pre.bidder.done
    /\ Len(hist.passed) = 2 /\ call.player = hist.passed[1]
    /\ pre.bidder.highest.contract # DEFAULT_CONTRACT
    /\ result = Err("NotPlayersTurn")

(***************************************************************************)
(* PlayerTurn on its own.                                                  *)
(***************************************************************************)
\* The participants left in a PlayerTurn.
Roster(t) == {t.players[i] : i \in 1..Len(t.players)}

\* C14: after any sequence of next() and remove() the roster has at least one
\* participant and current() is one of them, a participant the PlayerTurn started
\* with; remove() on a roster of one changes nothing and returns that participant.
C14_RosterNeverEmpty ==
    sys = "PlayerTurn" =>
        /\ current_players(order) >= 1
        /\ order.current_index \in 0..(current_players(order) - 1)
        /\ current(order) \in Roster(order)
        /\ Roster(order) \subseteq 0..(order.num_players - 1)
        /\ call.op # "None" => result = Returned(current(order))
        /\ call.op = "remove" /\ current_players(pre.order) = 1 =>
              /\ order = pre.order
              /\ result = Returned(pre.order.players[1])

\* C14 witness: remove() was called on a roster that earlier removals had left
\* with one participant of several.
C14_Witness ==
    /\ sys = "PlayerTurn" /\ call.op = "remove"
    /\ current_players(pre.order) = 1 /\ order.num_players > 2
    /\ current(order) # order.started_with

(***************************************************************************)
(* Announcements: the order of the players and the bonuses accepted.       *)
(***************************************************************************)
\* The seat that acts as the n-th after the declarer (n = 0 for the declarer).
SeatAfterDeclarer(n) == (hist.declarer + n) % NUM_PLAYERS

\* C15: the players whose announcement or pass was accepted are the declarer d,
\* then d+1, d+2 and d+3 (mod 4), each once; each of the first three accepted
\* calls returns Next of the following seat, the fourth returns Last, and the
\* announcements are done exactly when all four have acted.
C15_AnnouncementOrder ==
    sys = "Announcements" =>
        /\ Len(hist.acted) <= NUM_PLAYERS
        /\ \A i \in 1..Len(hist.acted) : hist.acted[i] = SeatAfterDeclarer(i - 1)
        /\ ann.done <=> Len(hist.acted) = NUM_PLAYERS
        /\ ~ann.done => current(ann.turn) = SeatAfterDeclarer(Len(hist.acted))
        /\ is_ok(result) =>
              result = IF Len(hist.acted) < NUM_PLAYERS
                       THEN Next_(SeatAfterDeclarer(Len(hist.acted)))
                       ELSE Last

\* C15 witness: with declarer 2 the fourth accepted call, by player 1, returned Last.
C15_Witness ==
    /\ sys = "Announcements" /\ hist.declarer = 2
    /\ hist.acted = <<2, 3, 0, 1>>
    /\ result = Last /\ ann.done

\* The last call was an announce by the current player, the announcements not done.
AnnounceByCurrent ==
    /\ sys = "Announcements" /\ call.op = "announce"
    /\ ~pre.ann.done /\ call.player = current(pre.ann.turn)

\* C16: an announce by the current player is accepted exactly when every bonus
\* asked for is valid for that player: Trula, Kings and Valat always, KingUltimo
\* only with a called king that the player holds, PagatUltimo only when the player
\* holds the Pagat; otherwise it returns InvalidBonus.  The empty set is accepted.
C16_ValidBonuses ==
    AnnounceByCurrent =>
        LET hand == pre.players[call.player].hand
            king_held == /\ pre.ann.king # "None"
                         /\ SuitCard(King, pre.ann.king) \in hand
            pagat_held == CARD_TAROCK_PAGAT \in hand
            all_valid == /\ "KingUltimo" \in call.arg => king_held
                         /\ "PagatUltimo" \in call.arg => pagat_held
        IN /\ is_ok(result) <=> all_valid
           /\ ~all_valid => result = Err("InvalidBonus")
           /\ call.arg = {} => is_ok(result)

\* C16 witness: KingUltimo was refused to a player who holds a king, but not the
\* king that was called.
C16_Witness ==
    /\ AnnounceByCurrent /\ call.arg = {"KingUltimo", "Trula"}
    /\ pre.ann.king = "Clubs"
    /\ SuitCard(King, "Hearts") \in pre.players[call.player].hand
    /\ SuitCard(King, "Clubs") \notin pre.players[call.player].hand
    /\ result = Err("InvalidBonus")

(***************************************************************************)
(* The trick winner strategies.                                            *)
(***************************************************************************)
\* The positions (1-based) of a trick's cards.
Positions == 1..Len(args.cards)

\* The trick holds the Pagat, the Mond and the Skis.
FullTrula ==
    {CARD_TAROCK_PAGAT, CARD_TAROCK_MOND, CARD_TAROCK_SKIS}
        \subseteq {args.cards[i] : i \in Positions}

\* The position w holds the highest trump of the trick.
HighestTrumpAt(w) ==
    /\ is_tarock(args.cards[w])
    /\ \A i \in Positions :
          is_tarock(args.cards[i]) => tarock(args.cards[i]) <= tarock(args.cards[w])

\* The position w holds the highest-ranked card of the led suit.
HighestOfLedSuitAt(w) ==
    /\ suit(args.cards[w]) = suit(args.cards[1])
    /\ \A i \in Positions :
          suit(args.cards[i]) = suit(args.cards[1]) =>
              rank(args.cards[i]) <= rank(args.cards[w])

\* The position (1-based) of the Pagat.
PagatAt(w) == args.cards[w] = CARD_TAROCK_PAGAT

\* C17: on a trick without the full Trula standard_winner_strategy returns the
\* index of the highest trump if the trick holds a trump, and otherwise the index
\* of the highest card of the led suit; a card of another suit never wins.
C17_StandardWinner ==
    sys = "winner_strategy" /\ call.op = "standard_winner_strategy" /\ ~FullTrula =>
        /\ result + 1 \in Positions
        /\ IF \E i \in Positions : is_tarock(args.cards[i])
           THEN HighestTrumpAt(result + 1)
           ELSE HighestOfLedSuitAt(result + 1)
        /\ \/ is_tarock(args.cards[result + 1])
           \/ suit(args.cards[result + 1]) = suit(args.cards[1])

\* C17 witness: a suit was led, no trump was played, and a card of another suit
\* outranks the winner, which is not the first card.
C17_Witness ==
    /\ sys = "winner_strategy" /\ call.op = "standard_winner_strategy"
    /\ Len(args.cards) = NUM_PLAYERS
    /\ \A i \in Positions : ~is_tarock(args.cards[i])
    /\ result > 0
    /\ \E i \in Positions :
          /\ suit(args.cards[i]) # suit(args.cards[1])
          /\ rank(args.cards[i]) > rank(args.cards[result + 1])

\* C18: on a trick of four cards with the Pagat, the Mond and the Skis
\* standard_winner_strategy returns the index of the Pagat, in every order of play
\* and with every fourth card.
C18_TrulaOverride ==
    /\ sys = "winner_strategy" /\ call.op = "standard_winner_strategy"
    /\ Len(args.cards) = NUM_PLAYERS /\ FullTrula
    => result + 1 \in Positions /\ PagatAt(result + 1)

\* C18 witness: a suit card was led, the Pagat was played last, and it won.
C18_Witness ==
    /\ sys = "winner_strategy" /\ call.op = "standard_winner_strategy"
    /\ Len(args.cards) = NUM_PLAYERS /\ FullTrula
    /\ ~is_tarock(args.cards[1])
    /\ result = 3 /\ PagatAt(4)

\* C19: color_valat_winner_strategy on a trick led by a suit card returns the
\* index of the highest card of the led suit, never a trump; on a trick led by a
\* trump it returns the index of the highest trump, but the index of the Pagat
\* when the trick holds Pagat, Mond and Skis.
C19_ColorValatWinner ==
    sys = "winner_strategy" /\ call.op = "color_valat_winner_strategy" =>
        /\ result + 1 \in Positions
        /\ IF ~is_tarock(args.cards[1])
           THEN ~is_tarock(args.cards[result + 1]) /\ HighestOfLedSuitAt(result + 1)
           ELSE IF FullTrula THEN PagatAt(result + 1)
                ELSE HighestTrumpAt(result + 1)

\* C19 witness: a suit card was led, the Trula was played on it, and the suit card won.
C19_Witness ==
    /\ sys = "winner_strategy" /\ call.op = "color_valat_winner_strategy"
    /\ ~is_tarock(args.cards[1]) /\ FullTrula
    /\ result = 0

(***************************************************************************)
(* Trick play: the end of a trick.                                         *)
(***************************************************************************)
\* The last call was the accepted play of the fourth card of a trick.
FourthCardAccepted ==
    /\ PlayByCurrent /\ is_ok(result)
    /\ Len(pre.game.trick) = NUM_PLAYERS - 1

\* The trick that the last call completed.
CompletedTrick == Append(pre.game.trick, call.arg)

\* The player who played the winning card of the completed trick: hist.by lists
\* who played each of its cards.
TrickWinner == hist.by[standard_winner_strategy(CompletedTrick) + 1]

\* C20: when the fourth card of a trick is accepted, the player who played the
\* winning card gets exactly the four cards appended to their pile and becomes the
\* current player, no other pile changes, the trick is empty, the trick number
\* grows by one, and the call returns Next of that player unless the game is done
\* (then Last); whoever led the trick.
C20_TrickCompletion ==
    FourthCardAccepted =>
        /\ Len(hist.by) = NUM_PLAYERS
        /\ players[TrickWinner].pile = pre.players[TrickWinner].pile \o CompletedTrick
        /\ \A id \in PlayerId \ {TrickWinner} : players[id].pile = pre.players[id].pile
        /\ game.trick = <<>>
        /\ current(game.turn) = TrickWinner
        /\ game.trick_number = pre.game.trick_number + 1
        /\ game.done <=> players[TrickWinner].hand = {}
        /\ result = IF game.done THEN Last ELSE Next_(TrickWinner)

\* C20 witness: a trick led by a seat other than 1 was won by a player other than
\* its leader, every card having been played from its player's hand.
C20_Witness ==
    /\ FourthCardAccepted
    /\ hist.by[1] # 1 /\ TrickWinner # hist.by[1]
    /\ CardsPlayed = CardsGone
    /\ Len(players[TrickWinner].pile) = NUM_PLAYERS


(***************************************************************************)
(* Playing: the finished game.                                             *)
(***************************************************************************)
\* C21: from four hands of equal size, whenever is_finished() is true every
\* player's hand is empty and the current trick is empty.
C21_FinishedMeansNoCardsLeft ==
    sys = "StandardGame" /\ game.done =>
        /\ \A id \in PlayerId : players[id].hand = {}
        /\ game.trick = <<>>

\* C21 with held cards only: the same statement for games in which every accepted
\* play so far was of a card from the player's hand.
C21_FinishedAfterHeldPlays ==
    sys = "StandardGame" /\ game.done /\ CardsPlayed = CardsGone =>
        /\ \A id \in PlayerId : players[id].hand = {}
        /\ game.trick = <<>>


(***************************************************************************)
(* Scoring a pile of cards, and the deal.                                  *)
(***************************************************************************)
\* The two piles of the last call of score.
PileOne == SubSeq(args.cards, 1, call.arg)

PileTwo == SubSeq(args.cards, call.arg + 1, Len(args.cards))

\* C22: for every ordering of the full deck and every split point, the scores of
\* the first split_at cards and of the remaining cards add up to 70; the whole
\* deck as one pile scores 70.
C22_PilesScore70 ==
    sys = "Deck" /\ call.op = "score" =>
        /\ Len(PileOne) + Len(PileTwo) = 54
        /\ result.pile_one + result.pile_two = 70

\* C22 witness: a shuffled deck was split into piles that both end in a short
\* group and that both score.
C22_Witness ==
    /\ sys = "Deck" /\ call.op = "score" /\ args.shuffled
    /\ Len(PileOne) % 3 = 2 /\ Len(PileTwo) % 3 = 1
    /\ result.pile_one > 0 /\ result.pile_two > 0
    /\ result.pile_one + result.pile_two = 70


\* The last group of a pile whose size is not a multiple of 3 (empty otherwise).
TrailingGroup(pile) == SubSeq(pile, Len(pile) - (Len(pile) % 3) + 1, Len(pile))

\* What the last group adds to the score of the pile.
TrailingAward(pile, total) ==
    total - Pile_score(SubSeq(pile, 1, Len(pile) - (Len(pile) % 3)))

\* The sum of the card values of a group of at most two cards.
SumOfValues(group) ==
    IF Len(group) = 0 THEN 0
    ELSE value(group[1]) + (IF Len(group) > 1 THEN value(group[2]) ELSE 0)

PointBearing(group) == {i \in 1..Len(group) : value(group[i]) > 0}

\* The award of a last group of one or two cards as stated: the sum less one
\* with a point-bearing card in it, nothing without.
AwardAsStated(group) ==
    IF PointBearing(group) # {} THEN SumOfValues(group) - 1 ELSE 0

\* The award of a last group of one or two cards: a single card as stated; two
\* cards 1 without a point-bearing card, and otherwise the sum less one for every
\* point-bearing card but the first.
AwardAmended(group) ==
    IF Len(group) = 1 THEN AwardAsStated(group)
    ELSE IF PointBearing(group) = {} THEN 1
    ELSE SumOfValues(group) - (Cardinality(PointBearing(group)) - 1)

\* C23 as stated: when the pile size is not a multiple of 3, the last group of 1
\* or 2 cards adds (sum of its card values - 1) if it holds a point-bearing card
\* and 0 if it holds none, for groups of one card and of two cards alike.
C23_TrailingGroupAsStated ==
    sys = "Deck" /\ call.op = "score" =>
        /\ Len(PileOne) % 3 # 0 =>
              TrailingAward(PileOne, result.pile_one) = AwardAsStated(TrailingGroup(PileOne))
        /\ Len(PileTwo) % 3 # 0 =>
              TrailingAward(PileTwo, result.pile_two) = AwardAsStated(TrailingGroup(PileTwo))

\* C23 amended: a last group of one card adds its value less one if the card is
\* point-bearing and 0 if not; a last group of two cards is scored as a full
\* group is: 1 without a point-bearing card, else the sum of the values less
\* (the number of point-bearing cards - 1).
C23_TrailingGroup ==
    sys = "Deck" /\ call.op = "score" =>
        /\ Len(PileOne) % 3 # 0 =>
              TrailingAward(PileOne, result.pile_one) = AwardAmended(TrailingGroup(PileOne))
        /\ Len(PileTwo) % 3 # 0 =>
              TrailingAward(PileTwo, result.pile_two) = AwardAmended(TrailingGroup(PileTwo))

\* C23 witness: of two piles of a shuffled deck, one ends in two cards of which
\* exactly one is point-bearing, the other in a single point-bearing card.
C23_Witness ==
    /\ sys = "Deck" /\ call.op = "score" /\ args.shuffled
    /\ Len(PileOne) % 3 = 2 /\ Cardinality(PointBearing(TrailingGroup(PileOne))) = 1
    /\ Len(PileTwo) % 3 = 1 /\ Cardinality(PointBearing(TrailingGroup(PileTwo))) = 1
    /\ TrailingAward(PileOne, result.pile_one) = SumOfValues(TrailingGroup(PileOne))
    /\ TrailingAward(PileTwo, result.pile_two) = SumOfValues(TrailingGroup(PileTwo)) - 1


\* The cards of a sequence, as a set.
CardsOf(cards) == {cards[i] : i \in 1..Len(cards)}

\* The cards of the six-card packet number p of the deck, the talon being packet 0.
Packet(p) == {args.cards[i] : i \in (6 * p + 1)..(6 * p + 6)}

\* C28: deal_four_player_standard on any ordering of the 54 distinct cards
\* yields a talon of exactly the first 6 cards and 4 hands of exactly 12 cards
\* each, the following eight packets of 6 dealt to players 0,1,2,3,0,1,2,3; talon
\* and hands are pairwise disjoint and their union is the whole deck.
C28_StandardDeal ==
    sys = "Deck" /\ call.op = "deal" =>
        /\ CardsOf(args.cards) = CARDS /\ Len(args.cards) = 54
        /\ result.talon = SubSeq(args.cards, 1, 6)
        /\ DOMAIN result.hands = 0..3
        /\ \A p \in 0..3 :
              /\ Cardinality(result.hands[p]) = 12
              /\ result.hands[p] = Packet(p + 1) \cup Packet(p + 5)
              /\ result.hands[p] \cap CardsOf(result.talon) = {}
              /\ \A q \in 0..3 : p # q => result.hands[p] \cap result.hands[q] = {}
        /\ CardsOf(result.talon) \cup UNION {result.hands[p] : p \in 0..3} = CARDS

\* C28 witness: a deck that is not in the order of CARDS was dealt.
C28_Witness ==
    /\ sys = "Deck" /\ call.op = "deal" /\ args.cards # Deck_new
    /\ Len(result.talon) = 6
    /\ \A p \in 0..3 : Cardinality(result.hands[p]) = 12


(***************************************************************************)
(* Scoring a contract.                                                     *)
(***************************************************************************)
\* The last call was score() for a contract scored by score_normal.
ScoredNormal ==
    /\ sys = "score" /\ call.op = "score"
    /\ args.contract \in {STANDARD_THREE, STANDARD_TWO, STANDARD_ONE,
                          SOLO_THREE, SOLO_TWO, SOLO_ONE, SOLO_WITHOUT}

\* The declarer, and the partner if there is one.
ScoringPlayers ==
    {args.declarer} \cup (IF args.partner = NoPartner THEN {} ELSE {args.partner})

\* The points of the piles of the scoring players, combined into one pile.
CombinedTotal ==
    Pile_score(players[args.declarer].pile
               \o (IF args.partner = NoPartner THEN <<>> ELSE players[args.partner].pile))

\* r is n rounded to the nearest multiple of 5.
IsRound5(r, n) == r % 5 = 0 /\ r - n \in -2..2

\* C24: a normal contract.  The piles of the scoring players are scored as one
\* pile with total T; every scoring player receives +round5(T + contract value)
\* if T > 35 and -round5(T + contract value) if T <= 35; no other player appears.
C24_NormalScoring ==
    ScoredNormal =>
        /\ DOMAIN result = ScoringPlayers
        /\ \A id \in ScoringPlayers :
              IF CombinedTotal > 35
              THEN IsRound5(result[id], CombinedTotal + contract_value(args.contract))
              ELSE IsRound5(-result[id], CombinedTotal + contract_value(args.contract))

\* C24 witness: a declarer and a partner whose piles total exactly 35 lose.
C24_Witness ==
    /\ ScoredNormal /\ args.partner # NoPartner
    /\ CombinedTotal = 35
    /\ result[args.declarer] < 0 /\ result[args.partner] = result[args.declarer]


\* The last call was score() for Klop.
ScoredKlop == sys = "score" /\ call.op = "score" /\ args.contract = KLOP

\* s_i: minus the points of the pile of player id.
KlopScore(id) == -Pile_score(players[id].pile)

\* The players with s_i = 0 and those with s_i < -35.
KlopWinners == {id \in PlayerId : KlopScore(id) = 0}

KlopLosers == {id \in PlayerId : KlopScore(id) < -35}

C25_AllFourScore ==
    /\ ScoredKlop /\ KlopWinners = {} /\ KlopLosers = {}
    /\ DOMAIN result = PlayerId
    /\ \E id \in PlayerId : result[id] # KlopScore(id)


\* The last call was score() for the contract given.
Scored(contract) == sys = "score" /\ call.op = "score" /\ args.contract = contract

\* The pile of the declarer of the last call.
DeclarerPile == players[args.declarer].pile

\* C26: for Beggar and Open Beggar the result holds only the declarer, with
\* +contract value if the declarer's pile is empty and -contract value otherwise;
\* for Valat and Color Valat it holds only the declarer, with +contract value if
\* the pile has at least 48 cards and -contract value otherwise; nothing is
\* rounded and no pile points enter the score.
C26_BinaryContracts ==
    /\ Scored(BEGGAR_NORMAL) =>
          result = [id \in {args.declarer} |-> IF Len(DeclarerPile) = 0 THEN 70 ELSE -70]
    /\ Scored(BEGGAR_OPEN) =>
          result = [id \in {args.declarer} |-> IF Len(DeclarerPile) = 0 THEN 90 ELSE -90]
    /\ Scored(VALAT_COLOR) =>
          result = [id \in {args.declarer} |-> IF Len(DeclarerPile) >= 48 THEN 125 ELSE -125]
    /\ Scored(VALAT_NORMAL) =>
          result = [id \in {args.declarer} |-> IF Len(DeclarerPile) >= 48 THEN 250 ELSE -250]

\* C26 witness: a declarer who has won all 48 cards wins the Color Valat.
C26_Witness ==
    /\ Scored(VALAT_COLOR) /\ Len(DeclarerPile) = 48
    /\ DOMAIN result = {args.declarer} /\ result[args.declarer] = 125

\* A declarer who has won no trick wins the Beggar; one with a single trick of
\* little worth loses it.
C26_BeggarWon ==
    Scored(BEGGAR_NORMAL) /\ Len(DeclarerPile) = 0 /\ result[args.declarer] = 70

C26_BeggarLost ==
    /\ Scored(BEGGAR_OPEN) /\ Len(DeclarerPile) = 4 /\ Pile_score(DeclarerPile) = 1
    /\ result[args.declarer] = -90

C26_ValatLost ==
    Scored(VALAT_NORMAL) /\ Len(DeclarerPile) = 44 /\ result[args.declarer] = -250


\* C27: for every contract and every assignment of piles the map returned by
\* score() has at least one entry and no entry whose score is 0.
C27_NoZeroScores ==
    sys = "score" /\ call.op = "score" =>
        /\ DOMAIN result # {}
        /\ \A id \in DOMAIN result : result[id] # 0

\* The part of C27 that the code keeps: the map has at least one entry.
C27_SomeoneScores ==
    sys = "score" /\ call.op = "score" => DOMAIN result # {}


(***************************************************************************)
(* The normal contracts.                                                   *)
(***************************************************************************)
\* C29: is_normal(), and therefore bonuses_allowed(), is true for all three
\* tiers of Standard and all three tiers of Solo, and false for Klop, both
\* Beggar variants and both Valat variants.
C29_NormalContracts ==
    sys = "Bidder" /\ call.op = "bonuses_allowed" =>
        /\ call.arg \in {STANDARD_THREE, STANDARD_TWO, STANDARD_ONE,
                         SOLO_THREE, SOLO_TWO, SOLO_ONE} => result.tag = "true"
        /\ call.arg \in {KLOP, BEGGAR_NORMAL, BEGGAR_OPEN, VALAT_COLOR, VALAT_NORMAL} =>
              result.tag = "false"

\* The part of C29 that the code keeps: false for Klop, Beggar and Valat, true for
\* Standard Three and Solo Three.
C29_NotNormal ==
    sys = "Bidder" /\ call.op = "bonuses_allowed" =>
        /\ call.arg \in {STANDARD_THREE, SOLO_THREE} => result.tag = "true"
        /\ call.arg \in {KLOP, BEGGAR_NORMAL, BEGGAR_OPEN, VALAT_COLOR, VALAT_NORMAL} =>
              result.tag = "false"

\* A bidding won with Klop was asked about.
C29_KlopAsked ==
    sys = "Bidder" /\ call.op = "bonuses_allowed" /\ call.arg = KLOP


(***************************************************************************)
(* Valid moves in the negative contracts.                                  *)
(***************************************************************************)
\* The negative validator was asked for the moves of a hand that holds a card of
\* the suit that was led.
FollowingLedSuit ==
    /\ sys = "valid_moves" /\ call.op = "valid_moves_negative"
    /\ Len(args.trick) > 0 /\ led_suit(args.trick) # "None"
    /\ has_suit(args.hand, led_suit(args.trick))

\* The cards of the led suit in the hand.
LedSuitCards == {card \in args.hand : suit(card) = led_suit(args.trick)}

TrumpInTrick == \E i \in 1..Len(args.trick) : is_tarock(args.trick[i])

\* The hand's cards of the led suit that are higher than every card of the led
\* suit in the trick.
HigherLedSuitCards ==
    {card \in LedSuitCards :
        \A i \in 1..Len(args.trick) :
            suit(args.trick[i]) = led_suit(args.trick) => rank(card) > rank(args.trick[i])}

\* C30: negative_contract_move_validator, player following the led suit.  If no
\* trump has been played in the trick and the hand holds a led-suit card higher
\* than the best led-suit card in the trick, of the led-suit cards exactly the
\* higher ones are legal; if the player cannot beat the trick (all their led-suit
\* cards are lower, or a trump is already in the trick), every led-suit card of the
\* hand is legal, whatever trumps the hand also holds.
C30_FollowSuitNegative ==
    FollowingLedSuit =>
        IF ~TrumpInTrick /\ HigherLedSuitCards # {}
        THEN result \cap LedSuitCards = HigherLedSuitCards
        ELSE LedSuitCards \subseteq result

\* The part of C30 that the code keeps: the same, for a trick without a trump.
C30_FollowSuitNoTrumpPlayed ==
    FollowingLedSuit /\ ~TrumpInTrick =>
        IF HigherLedSuitCards # {}
        THEN result \cap LedSuitCards = HigherLedSuitCards
        ELSE LedSuitCards \subseteq result

(***************************************************************************)
(* The Pagat in the negative contracts.                                    *)
(***************************************************************************)
\* The negative validator was asked for the moves of a hand that holds the Pagat
\* and must play a trump: a trump was led, or a suit that the hand does not hold.
PagatHolderMustPlayTrump ==
    /\ sys = "valid_moves" /\ call.op = "valid_moves_negative"
    /\ Len(args.trick) > 0 /\ CARD_TAROCK_PAGAT \in args.hand
    /\ led_suit(args.trick) = "None" \/ ~has_suit(args.hand, led_suit(args.trick))

MondAndSkisInTrick ==
    {CARD_TAROCK_MOND, CARD_TAROCK_SKIS} \subseteq {args.trick[i] : i \in 1..Len(args.trick)}

PagatIsOnlyTrump == {card \in args.hand : is_tarock(card)} = {CARD_TAROCK_PAGAT}

\* C31: negative_contract_move_validator, Pagat rule.  For a player who holds the
\* Pagat and must play a trump (a trump was led, or a suit was led that the hand
\* does not hold): if Mond and Skis are both already in the trick, the Pagat is the
\* only legal card; otherwise the Pagat is legal only if it is the only trump in
\* the hand.
C31_PagatRule ==
    PagatHolderMustPlayTrump =>
        IF MondAndSkisInTrick
        THEN result = {CARD_TAROCK_PAGAT}
        ELSE CARD_TAROCK_PAGAT \in result => PagatIsOnlyTrump

\* The part of C31 that the code keeps: the same, when a trump was led.
C31_PagatRuleTrumpLed ==
    PagatHolderMustPlayTrump /\ led_suit(args.trick) = "None" /\ is_tarock(args.trick[1]) =>
        IF MondAndSkisInTrick
        THEN result = {CARD_TAROCK_PAGAT}
        ELSE CARD_TAROCK_PAGAT \in result => PagatIsOnlyTrump

\* A suit was led that the hand does not hold, Mond and Skis are in the trick, and
\* the Pagat is not the only trump of the hand.
C31_SuitLedTrulaCase ==
    /\ PagatHolderMustPlayTrump /\ led_suit(args.trick) # "None"
    /\ MondAndSkisInTrick /\ ~PagatIsOnlyTrump

(***************************************************************************)
(* Bidding: the bidder as it is constructed.                               *)
(***************************************************************************)
\* C32: for every dealer d in 0..3, Bidder::new(d) yields forehand (d+1) mod 4
\* holding the highest bid with the default contract Standard Three, current
\* player (d+2) mod 4, all four players in the rotation, done = false and
\* winner() = None.
C32_NewBidder ==
    \A dealer \in 0..3 :
        sys = "Bidder" /\ bidder = Bidder_new(dealer) =>
            /\ bidder.forehand = (dealer + 1) % 4
            /\ bidder.highest.player = bidder.forehand
            /\ bidder.highest.contract = STANDARD_THREE
            /\ current(bidder.turn) = (dealer + 2) % 4
            /\ Roster(bidder.turn) = 0..3 /\ current_players(bidder.turn) = 4
            /\ ~bidder.done
            /\ winner(bidder) = "None"

\* C32 witness: the bidder as constructed for the dealer 3, whose forehand is
\* player 0; no call has been made.
C32_Witness ==
    /\ sys = "Bidder" /\ bidder = Bidder_new(3)
    /\ call.op = "None" /\ hist.passed = <<>>
    /\ bidder.forehand = 0 /\ current(bidder.turn) = 1

(***************************************************************************)
(* PlayerTurn: who is next.                                                *)
(***************************************************************************)
\* The remaining participant with the next higher id than the current one, or the
\* one with the lowest id when no id is higher.
CyclicSuccessor(t) ==
    LET higher == {p \in Roster(t) : p > current(t)}
        from == IF higher = {} THEN Roster(t) ELSE higher
    IN CHOOSE p \in from : \A q \in from : p <= q

RECURSIVE AfterNexts(_, _)
\* The PlayerTurn after k consecutive calls of next().
AfterNexts(t, k) == IF k = 0 THEN t ELSE AfterNexts(next(t), k - 1)

\* C33: PlayerTurn successor rule.  After any sequence of next() and remove()
\* calls, next() makes current the remaining participant with the next higher id
\* (wrapping to the lowest remaining id); remove() on a roster of two or more
\* deletes exactly the current participant and makes that same cyclic successor
\* current; k consecutive next() calls on a roster of k participants visit each
\* remaining participant once and return to the starting one.
C33_SuccessorRule ==
    sys = "PlayerTurn" =>
        /\ call.op = "next" =>
              /\ order.players = pre.order.players
              /\ current(order) = CyclicSuccessor(pre.order)
              /\ result = Returned(CyclicSuccessor(pre.order))
        /\ call.op = "remove" /\ current_players(pre.order) >= 2 =>
              /\ Roster(order) = Roster(pre.order) \ {current(pre.order)}
              /\ current_players(order) = current_players(pre.order) - 1
              /\ current(order) = CyclicSuccessor(pre.order)
              /\ result = Returned(CyclicSuccessor(pre.order))
        /\ LET k == current_players(order)
           IN /\ AfterNexts(order, k) = order
              /\ {current(AfterNexts(order, j)) : j \in 1..k} = Roster(order)
              /\ \A i, j \in 1..k :
                    i # j => current(AfterNexts(order, i)) # current(AfterNexts(order, j))

\* C33 witness: after an earlier removal, remove() deleted the participant with
\* the highest id of three and the one with the lowest id became current.
C33_Witness ==
    /\ sys = "PlayerTurn" /\ call.op = "remove"
    /\ order.num_players = 4 /\ current_players(pre.order) = 3
    /\ \A p \in Roster(pre.order) : p <= current(pre.order)
    /\ current(order) # 0
    /\ \A p \in Roster(order) : current(order) <= p

\* C33 witness: next() wrapped from the highest remaining id to the lowest one on
\* a roster that a removal had left with two participants.
C33_NextWrapped ==
    /\ sys = "PlayerTurn" /\ call.op = "next"
    /\ current_players(order) = 2 /\ order.num_players > 2
    /\ current(order) < current(pre.order)

(***************************************************************************)
(* Playing: the order of the players in a trick.                           *)
(***************************************************************************)
\* The seat after a seat.
FollowingSeat(seat) == (seat + 1) % 4

\* C34: turn order inside a trick of StandardGame.  The four players play in seat
\* order leader, leader+1, leader+2, leader+3 (mod 4), each exactly once per
\* trick; each of the first three accepted plays returns Next(following seat), and
\* play_card by any player other than the current one returns NotPlayersTurn.
C34_TurnOrderInTrick ==
    sys = "StandardGame" =>
        /\ Len(hist.by) <= 4
        /\ \A i \in 1..Len(hist.by) : hist.by[i] = (hist.by[1] + i - 1) % 4
        /\ \A i, j \in 1..Len(hist.by) : i # j => hist.by[i] # hist.by[j]
        /\ Len(game.trick) > 0 =>
              /\ Len(hist.by) = Len(game.trick)
              /\ current(game.turn) = (hist.by[1] + Len(game.trick)) % 4
        /\ PlayByCurrent /\ is_ok(result) /\ Len(pre.game.trick) < 3 =>
              /\ result = Next_(FollowingSeat(call.player))
              /\ current(game.turn) = FollowingSeat(call.player)
        /\ /\ call.op = "play_card" /\ ~pre.game.done
           /\ call.player # current(pre.game.turn)
           => result = Err("NotPlayersTurn")

\* C34 witness: the third accepted play of a trick led by seat 3, by seat 1 after
\* the seats 3 and 0, returned Next(2).
C34_Witness ==
    /\ PlayByCurrent /\ is_ok(result)
    /\ hist.by = <<3, 0, 1>> /\ Len(game.trick) = 3
    /\ result = Next_(2)

\* C34 witness: inside a trick a player other than the current one played a card
\* that the standard validator refuses, and got NotPlayersTurn.
C34_OutOfTurn ==
    /\ sys = "StandardGame" /\ call.op = "play_card" /\ ~pre.game.done
    /\ Len(pre.game.trick) = 2 /\ call.player # current(pre.game.turn)
    /\ ~standard_move_validator(pre.players[current(pre.game.turn)].hand, pre.game.trick,
                                call.arg)
    /\ result = Err("NotPlayersTurn")

(***************************************************************************)
(* Playing: the game ends with the last trick.                             *)
(***************************************************************************)
\* The plays accepted so far: the cards in the trick and in the piles.
AcceptedPlays == Len(game.trick) + Sum4([id \in PlayerId |-> Len(players[id].pile)])

CompletedTricks == Sum4([id \in PlayerId |-> Len(players[id].pile)]) \div NUM_PLAYERS

\* C35: trick play terminates on the last trick.  Starting from four disjoint
\* hands of N cards each with every player only playing legal cards they hold,
\* play_card returns Last on the 4N-th accepted play and on no earlier one, Next
\* on all others, and trick_number() equals 1 + the number of completed tricks at
\* every point (1 at the start, N+1 once finished).
C35_LastTrickEndsTheGame ==
    sys = "StandardGame" =>
        /\ game.trick_number = 1 + CompletedTricks
        /\ AcceptedPlays <= 4 * args.hand_size
        /\ game.done <=> AcceptedPlays = 4 * args.hand_size
        /\ game.done => game.trick_number = args.hand_size + 1
        /\ call.op = "play_card" /\ is_ok(result) =>
              IF AcceptedPlays = 4 * args.hand_size
              THEN result = Last
              ELSE result.tag = "Next"
        /\ AcceptedPlays < 4 * args.hand_size =>
              \E card \in players[current(game.turn)].hand :
                 is_ok(StandardGame_play_card(game, players, current(game.turn), card)[3])

\* C35 witness: the twelfth accepted play of a game of hands of three cards
\* returned Last, in the third trick.
C35_Witness ==
    /\ sys = "StandardGame" /\ args.hand_size = 3
    /\ call.op = "play_card" /\ result = Last
    /\ AcceptedPlays = 12 /\ pre.game.trick_number = 3 /\ game.trick_number = 4
    /\ \A id \in PlayerId : players[id].hand = {}

\* C35 witness: a game of hands of one card ended with its fourth play.
C35_OneTrick ==
    /\ sys = "StandardGame" /\ args.hand_size = 1
    /\ call.op = "play_card" /\ result = Last /\ AcceptedPlays = 4

(***************************************************************************)
(* Valid moves: a player always has a card to play.                        *)
(***************************************************************************)
\* C36: standard_move_validator never leaves a player stuck.  For every non-empty
\* hand and every trick of 0 to 3 cards disjoint from the hand, at least one card
\* of the hand is legal (valid_moves is non-empty).
C36_StandardNeverStuck ==
    sys = "valid_moves" /\ call.op = "valid_moves_standard" =>
        /\ args.hand # {}
        /\ result # {}
        /\ result \subseteq args.hand

\* C36 witness: a trump was led into a trick of three cards and the hand holds
\* neither a trump nor only one card; all its cards are legal.
C36_Witness ==
    /\ sys = "valid_moves" /\ call.op = "valid_moves_standard"
    /\ Len(args.trick) = 3 /\ is_tarock(args.trick[1])
    /\ ~has_tarock(args.hand) /\ Cardinality(args.hand) > 1
    /\ result = args.hand

\* C37: negative_contract_move_validator never leaves a player stuck.  For every
\* non-empty hand and every trick of 0 to 3 cards disjoint from the hand, at least
\* one card of the hand is legal (valid_moves is non-empty), including hands that
\* hold the Pagat when Mond and Skis are in a suit-led trick, and hands that hold
\* both led-suit cards and a trump higher than a trump already in the trick.
C37_NegativeNeverStuck ==
    sys = "valid_moves" /\ call.op = "valid_moves_negative" =>
        /\ args.hand # {}
        /\ result # {}
        /\ result \subseteq args.hand

\* The negative validator left no legal card to a hand with a card of the led suit
\* and a trump higher than a trump of the trick.
C37_StuckFollowingSuit ==
    /\ FollowingLedSuit /\ result = {}
    /\ \E card \in args.hand, i \in 1..Len(args.trick) :
          is_tarock(card) /\ is_tarock(args.trick[i]) /\ card > args.trick[i]

\* The negative validator left no legal card to a hand with the Pagat, Mond and
\* Skis being in a trick whose led suit the hand does not hold.
C37_StuckWithPagat ==
    /\ C31_SuitLedTrulaCase /\ result = {}

\* The part of C37 that the code keeps: a trick without a trump leaves every hand
\* a legal card.
C37_NotStuckWithoutTrumps ==
    /\ sys = "valid_moves" /\ call.op = "valid_moves_negative"
    /\ \A i \in 1..Len(args.trick) : ~is_tarock(args.trick[i])
    => result # {}

(***************************************************************************)
(* Bidding: it never gets stuck and it ends.                               *)
(***************************************************************************)
\* The current player's pass would be accepted.
PassWouldBeAccepted == is_ok(Bidder_pass(bidder, current(bidder.turn))[2])

\* The contracts that the current player's bid would be accepted with.
AcceptedContracts ==
    {contract \in Contract : is_ok(Bidder_bid(bidder, current(bidder.turn), contract)[2])}

\* C38: bidding is deadlock-free.  In every reachable non-done state of Bidder,
\* for every dealer, the current player has at least one accepted operation (a
\* pass, or a bid of some contract among the twelve); in particular a sole
\* remaining bidder can always place an accepted bid, even when the highest bid
\* is Valat (250) or was placed by a player who has since passed.
C38_BiddingNeverStuck ==
    sys = "Bidder" /\ ~bidder.done =>
        /\ PassWouldBeAccepted \/ AcceptedContracts # {}
        /\ current_players(bidder.turn) = 1 => AcceptedContracts # {}

\* C38 witness: the only bidder left is not the forehand, who has passed, and the
\* highest bid is Valat: the bidder can bid Valat and nothing else.
C38_Witness ==
    /\ sys = "Bidder" /\ ~bidder.done /\ call.op = "None"
    /\ current_players(bidder.turn) = 1
    /\ current(bidder.turn) # bidder.forehand
    /\ bidder.highest.contract = VALAT_NORMAL
    /\ bidder.forehand \in Passed
    /\ AcceptedContracts = {VALAT_NORMAL}

\* The highest bid is always held by a player who is still bidding: no holder of
\* the highest bid has passed.
C38_HighestBidderStillBids ==
    sys = "Bidder" => bidder.highest.player \in Roster(bidder.turn)

\* The last call was accepted: a bid or a pass that returned Next or Last.
AcceptedBid == sys = "Bidder" /\ call.op = "bid" /\ is_ok(result)

AcceptedPass == sys = "Bidder" /\ call.op = "pass" /\ is_ok(result)

\* The accepted bid raised the highest contract value, or kept it and moved the
\* highest bid to a player of strictly earlier priority.
RaisedOrTookOver ==
    \/ contract_value(bidder.highest.contract) > contract_value(pre.bidder.highest.contract)
    \/ /\ contract_value(bidder.highest.contract) = contract_value(pre.bidder.highest.contract)
       /\ bidder.highest.player_priority < pre.bidder.highest.player_priority

\* What is left of a bidding: nothing when it is done; otherwise the bidders, then
\* the values above the highest bid, then the priorities before its holder's.
BiddingLeft(b) ==
    IF b.done THEN 0
    ELSE 2000 * current_players(b.turn)
         + 4 * (contract_value(VALAT_NORMAL) - contract_value(b.highest.contract))
         + b.highest.player_priority + 1

\* C39 as stated: every accepted pass removes a bidder, and every accepted bid
\* either raises the highest contract value or keeps it and moves the highest bid
\* to a player of strictly earlier priority.
C39_EveryBidRaisesAsStated ==
    /\ AcceptedPass => current_players(bidder.turn) = current_players(pre.bidder.turn) - 1
    /\ AcceptedBid => RaisedOrTookOver

\* C39: bidding always terminates; there is no infinite sequence of accepted bids
\* and passes.  Every accepted pass removes a bidder; every accepted bid that
\* returns Next raises the highest contract value or keeps it and moves the highest
\* bid to a player of strictly earlier priority; an accepted bid that returns Last
\* ends the bidding, and may repeat the bidder's own highest bid.  What is left of
\* the bidding is a number from 0 to 8964 that every accepted call makes smaller.
C39_BiddingTerminates ==
    sys = "Bidder" =>
        /\ BiddingLeft(bidder) \in 0..8964
        /\ AcceptedPass =>
              /\ current_players(bidder.turn) = current_players(pre.bidder.turn) - 1
              /\ result.tag = "Next"
        /\ AcceptedBid /\ result.tag = "Next" => RaisedOrTookOver
        /\ AcceptedBid /\ result = Last =>
              /\ bidder.done
              /\ contract_value(bidder.highest.contract)
                    >= contract_value(pre.bidder.highest.contract)
        /\ AcceptedBid \/ AcceptedPass => BiddingLeft(bidder) < BiddingLeft(pre.bidder)
        /\ call.op # "None" /\ is_err(result) => BiddingLeft(bidder) = BiddingLeft(pre.bidder)
        /\ call.op # "None" /\ pre.bidder.done => result = Err("Done")

\* C39 witness: a bid of the same value as the highest one was accepted from a
\* player of earlier priority, and the bidding goes on.
C39_Witness ==
    /\ AcceptedBid /\ result.tag = "Next"
    /\ contract_value(bidder.highest.contract) = contract_value(pre.bidder.highest.contract)
    /\ bidder.highest.player_priority < pre.bidder.highest.player_priority
    /\ bidder.highest.player # bidder.forehand

\* The only bidder left repeated their own highest bid, which ended the bidding.
C39_OwnBidRepeated ==
    /\ AcceptedBid /\ result = Last
    /\ bidder.highest = pre.bidder.highest
    /\ bidder.highest.player # bidder.forehand

(***************************************************************************)
(* Bidding: the priority of a player.                                      *)
(***************************************************************************)
\* The dealer: the player that the bidder's turn was started with.
Dealer == started_with(bidder.turn)

\* The position of a player in the bid order of a dealer, the forehand being 0.
BidOrderPosition(dealer, player) == (player + 7 - dealer) % 4

\* C40: player_priority is the bid-order position relative to the forehand for
\* every dealer: for dealer d and player p in 0..3 it equals (p - d - 1) mod 4, so
\* the forehand has priority 0, the dealer priority 3 and the four players have
\* four distinct priorities, also when p < d, where the unsigned subtraction p - d
\* wraps around modulo 2^64.
C40_PlayerPriority ==
    sys = "Bidder" =>
        /\ \A p \in 0..3 : player_priority(bidder.turn, p) = BidOrderPosition(Dealer, p)
        /\ bidder.forehand = (Dealer + 1) % 4
        /\ player_priority(bidder.turn, bidder.forehand) = 0
        /\ player_priority(bidder.turn, Dealer) = 3
        /\ Cardinality({player_priority(bidder.turn, p) : p \in 0..3}) = 4
        /\ bidder.highest.player_priority = BidOrderPosition(Dealer, bidder.highest.player)
        /\ \A p \in 0..3 :
              p < Dealer =>
                 uint_sub(to_uint(p), to_uint(Dealer))
                    = <<Limb - (Dealer - p), Limb - 1, Limb - 1, Limb - 1>>

\* C40 witness: with the dealer 3 a bid of player 1, for whom the subtraction
\* wraps, was accepted with the priority 1.
C40_Witness ==
    /\ sys = "Bidder" /\ call.op = "bid" /\ is_ok(result)
    /\ Dealer = 3 /\ call.player = 1
    /\ bidder.highest.player = 1 /\ bidder.highest.player_priority = 1

====
